---- MODULE Spec2Model ----
(***************************************************************************)
(* Verification model of the elz compiler core:                            *)
(*   - codegen/ir.rs   : lowering of AST bodies to the linear IR and the   *)
(*                       value-numbering pass (specification Spec)         *)
(*   - semantic/mod.rs : the three-pass checker check_program and the      *)
(*                       block checker check_block (specification CheckSpec)*)
(***************************************************************************)
EXTENDS Integers, Sequences, FiniteSets, TLC

VARIABLES
    program,          \* the parsed AST: a sequence of top-level declarations
    \* ---- codegen (ir::Module and the body being lowered) ----
    pc,               \* position of the code generator
    idx,              \* index of the next work item of the current pass
    known_functions,  \* Module.known_functions : name -> ret type
    known_variables,  \* Module.known_variables : name -> type
    types,            \* Module.types           : type name -> TStruct type
    functions,        \* Module.functions       : mangled name -> Function
    variables,        \* Module.variables       : ordered global list
    cur,              \* the Body under construction in Body::from_ast
    counter,          \* `counter` of the numbering loop
    pos,              \* position of the numbering loop in cur.instructions
    cells,            \* arena of ID cells: cells[i] is ID.value of cell i
    \* ---- semantic checker ----
    ck_pass,          \* 1,2,3: the loop of check_program that is running
    ck_idx,           \* index of the next declaration of that loop
    type_env,         \* SemanticChecker.type_env (the outer scope)
    result,           \* "running", "Ok", an error kind, or "panic"
    ck_site,          \* where the returned error was raised (statement and scope)
    \* ---- queries on ir::Type ----
    ty_arg,           \* the Type a query is called on
    ty_out            \* the outcome of the query: a value or a panic

gen_vars == <<pc, idx, known_functions, known_variables, types, functions,
              variables, cur, counter, pos, cells>>
ck_vars == <<ck_pass, ck_idx, type_env, result, ck_site>>
ty_vars == <<ty_arg, ty_out>>
vars == <<program, pc, idx, known_functions, known_variables, types,
          functions, variables, cur, counter, pos, cells,
          ck_pass, ck_idx, type_env, result, ck_site,
          ty_arg, ty_out>>

(***************************************************************************)
(* Generic helpers                                                         *)
(***************************************************************************)
EmptyMap == [n \in {} |-> 0]

\* HashMap::insert
Put(m, key, v) == [n \in (DOMAIN m) \cup {key} |-> IF n = key THEN v ELSE m[n]]

Last(s) == s[Len(s)]

SeqsUpTo(S, n) == UNION {[1..l -> S] : l \in 0..n}

SeqsFromTo(S, lo, n) == UNION {[1..l -> S] : l \in lo..n}

(***************************************************************************)
(* AST constructors (ast.rs data, as consumed by both passes)              *)
(***************************************************************************)
PT(n) == [name |-> n, generics |-> <<>>]
PTG(n, g) == [name |-> n, generics |-> g]

EInt(i) == [k |-> "Int", i |-> i]
EBool(b) == [k |-> "Bool", b |-> b]
EStr(s) == [k |-> "String", s |-> s]
EId(n) == [k |-> "Identifier", name |-> n]
ECall(f, args) == [k |-> "FuncCall", f |-> f, args |-> args]
EBin(l, r) == [k |-> "Binary", lhs |-> l, rhs |-> r, operator |-> "Plus"]
ENew(c, inits) == [k |-> "ClassConstruction", class |-> c, inits |-> inits]
EMember(from, a) == [k |-> "MemberAccess", from |-> from, access |-> a]
EList(es) == [k |-> "List", elems |-> es]

SReturn(opt) == [k |-> "Return", opt |-> opt]
SExpr(e) == [k |-> "Expression", expr |-> e]
SVar(n, t, e) == [k |-> "Variable", name |-> n, typ |-> t, expr |-> e]
SIf(cl, el) == [k |-> "IfBlock", clauses |-> cl, else_block |-> el]
Clause(c, b) == [cond |-> c, block |-> b]

Param(n, t) == [name |-> n, typ |-> t]
BodyExpr(e) == [k |-> "Expr", expr |-> e]
BodyBlock(ss) == [k |-> "Block", statements |-> ss]
Fn(n, ps, rt, body) == [name |-> n, parameters |-> ps, ret_typ |-> rt, body |-> body]
TopVar(n, t, e) == [k |-> "Variable", name |-> n, typ |-> t, expr |-> e]
TopFn(f) == [k |-> "Function", fn |-> f]
MField(n, t) == [k |-> "Field", name |-> n, typ |-> t]
MMethod(f) == [k |-> "Method", fn |-> f]
MStatic(f) == [k |-> "StaticMethod", fn |-> f]
TopClass(n, ms) == [k |-> "Class", name |-> n, members |-> ms]
TopTrait(n) == [k |-> "Trait", name |-> n]

(***************************************************************************)
(* ir::Type                                                                *)
(***************************************************************************)
TVoid == [t |-> "Void"]
TInt(n) == [t |-> "Int", size |-> n]
TFloat(n) == [t |-> "Float", size |-> n]
TPointer(e) == [t |-> "Pointer", elem |-> e]
TArray(l, e) == [t |-> "Array", len |-> l, elem |-> e]
TStruct(n, fs) == [t |-> "Struct", name |-> n, fields |-> fs]
TNamed(n) == [t |-> "Named", name |-> n]

\* no query on a Type has been made
NoQuery == [op |-> "none", panic |-> FALSE, size |-> 0, typ |-> TVoid]
IdleTypes == ty_arg = TVoid /\ ty_out = NoQuery

BuiltinTypeNames == {"void", "int", "f64", "bool", "_c_string"}

\* Type::from_ast reaches module.lookup_type(..).unwrap() for every other name
TypeFromAstPanics(t, tys) == t.name \notin BuiltinTypeNames /\ t.name \notin DOMAIN tys

TypeFromAst(t, tys) ==
    CASE t.name = "void" -> TVoid
      [] t.name = "int" -> TInt(64)
      [] t.name = "f64" -> TFloat(64)
      [] t.name = "bool" -> TInt(1)
      [] t.name = "_c_string" -> TPointer(TInt(8))
      [] OTHER -> IF t.name \in DOMAIN tys THEN tys[t.name] ELSE TVoid

(***************************************************************************)
(* ir::Expr                                                                *)
(***************************************************************************)
I64(i) == [e |-> "I64", i |-> i]
IBool(b) == [e |-> "Bool", b |-> b]
CString(s) == [e |-> "CString", s |-> s]
Identifier(t, n) == [e |-> "Identifier", typ |-> t, name |-> n]
LocalIdentifier(t, id) == [e |-> "LocalIdentifier", typ |-> t, id |-> id]
GlobalIdentifier(t, id) == [e |-> "GlobalIdentifier", typ |-> t, id |-> id]

\* Expr::type_
ExprType(x) ==
    CASE x.e = "I64" -> TInt(64)
      [] x.e = "F64" -> TFloat(64)
      [] x.e = "Bool" -> TInt(1)
      [] x.e = "CString" -> TArray(Len(x.s), TInt(8))
      [] OTHER -> x.typ

\* Expr::from_ast: literals only, anything else is unimplemented!()
ExprFromLiteralPanics(a) == a.k \notin {"F64", "Int", "Bool", "String"}

ExprFromLiteral(a) ==
    CASE a.k = "Int" -> I64(a.i)
      [] a.k = "Bool" -> IBool(a.b)
      [] a.k = "String" -> CString(a.s)
      [] OTHER -> I64(0)

(***************************************************************************)
(* ir::Instruction                                                         *)
(***************************************************************************)
Return(v) == [op |-> "Return", value |-> v]
Label(l) == [op |-> "Label", label |-> l]
Branch(c, t, f) == [op |-> "Branch", cond |-> c, if_true |-> t, if_false |-> f]
Goto(l) == [op |-> "Goto", label |-> l]
GEP(id, from, ix) == [op |-> "GEP", id |-> id, load_from |-> from, indices |-> ix]
FunctionCall(id, fname, rt, args) ==
    [op |-> "FunctionCall", id |-> id, func_name |-> fname, ret_type |-> rt, args_expr |-> args]
BinaryOperation(id, name, l, r) ==
    [op |-> "BinaryOperation", id |-> id, op_name |-> name, lhs |-> l, rhs |-> r]
Malloca(id, t) == [op |-> "Malloca", id |-> id, typ |-> t]
BitCast(id, from, t) == [op |-> "BitCast", id |-> id, from_id |-> from, target_type |-> t]
Load(id, from) == [op |-> "Load", id |-> id, load_from |-> from]
Store(src, dst) == [op |-> "Store", source |-> src, destination |-> dst]

\* Instruction::is_terminator
IsTerminator(inst) == inst.op \in {"Return", "Branch", "Goto"}

ProducesIdNoLabel(inst) ==
    inst.op \in {"Load", "Malloca", "BitCast", "GEP", "FunctionCall", "BinaryOperation"}

\* Instruction::set_id returns true exactly for these variants
ProducesId(inst) ==
    inst.op \in {"Label", "Load", "Malloca", "BitCast", "GEP", "FunctionCall",
                 "BinaryOperation"}

\* the cell Instruction::set_id writes
IdCellOf(inst) == IF inst.op = "Label" THEN inst.label ELSE inst.id

(***************************************************************************)
(* ir::Variable (a global of the module)                                   *)
(***************************************************************************)
\* Variable::new
VariableNew(name, x) == [name |-> [g |-> "String", s |-> "@" \o name], expr |-> x]

\* Variable::from_id
VariableFromId(id, x) == [name |-> [g |-> "ID", id |-> id], expr |-> x]

(***************************************************************************)
(* Body: the lowering state threaded through expr_from_ast and             *)
(* generate_instructions.                                                  *)
(*   instructions : Body.instructions                                      *)
(*   locals       : Body.variables (name -> LocalVariable)                 *)
(*   next_id      : the arena index the next ID::new() returns             *)
(*   globals      : Module.variables (string literals are pushed there)    *)
(*   panic        : an unreachable!/expect/unwrap has aborted the lowering *)
(***************************************************************************)
Res(st, v) == [st |-> st, val |-> v]

Abort(st) == Res([st EXCEPT !.panic = TRUE], I64(0))

Push(st, inst) == [st EXCEPT !.instructions = Append(@, inst)]

\* ID::new : the fresh cell is st.next_id
Alloc(st, n) == [st EXCEPT !.next_id = @ + n]

EndWithTerminatorNever(instructions) == FALSE

\* Body::end_with_terminator
EndWithTerminator(instructions) ==
    IF instructions = <<>> THEN FALSE ELSE IsTerminator(Last(instructions))

\* Body::goto
GotoLabel(st, label) == Push(st, Goto(label))

\* the linear scan of MemberAccess: zero-based index of the first field
\* named `access`, or the number of fields when there is none
RECURSIVE FieldIndex(_, _)
FieldIndex(fields, access) ==
    IF fields = <<>> THEN 0
    ELSE IF Head(fields).name = access THEN 0
    ELSE 1 + FieldIndex(Tail(fields), access)

MangleCallUnprefixed(name) == name

\* format!("@{}", name) of the FuncCall arm
MangleCall(name) == "@" \o name

RECURSIVE ExprFromAst(_, _, _)
RECURSIVE LowerArgs(_, _, _)
RECURSIVE StoreFields(_, _, _, _, _, _)
RECURSIVE GenerateInstructions(_, _, _)
RECURSIVE LowerClauses(_, _, _, _)
RECURSIVE LowerStatement(_, _, _)

LowerStringSharedId(expr, st, m) ==
    LET st1 == [Alloc(st, 3) EXCEPT
                  !.globals = Append(@, VariableFromId(1, CString(expr.s))),
                  !.instructions =
                      Append(@, GEP(st.next_id + 1,
                                    GlobalIdentifier(TPointer(TArray(Len(expr.s), TInt(8))), 1),
                                    <<0, 0>>))]
    IN IF "string" \notin DOMAIN m.types THEN Abort(st1)
       ELSE Res(Push(st1, FunctionCall(st.next_id + 2, "@\"string::new\"", m.types["string"],
                                       <<LocalIdentifier(TPointer(TInt(8)), st.next_id + 1)>>)),
                LocalIdentifier(m.types["string"], st.next_id + 2))

\* Body::expr_from_ast, String arm
LowerString(expr, st, m) ==
    LET st1 == [Alloc(st, 3) EXCEPT
                  !.globals = Append(@, VariableFromId(st.next_id, CString(expr.s))),
                  !.instructions =
                      Append(@, GEP(st.next_id + 1,
                                    GlobalIdentifier(TPointer(TArray(Len(expr.s), TInt(8))),
                                                     st.next_id),
                                    <<0, 0>>))]
    IN IF "string" \notin DOMAIN m.types THEN Abort(st1)
       ELSE Res(Push(st1, FunctionCall(st.next_id + 2, "@\"string::new\"", m.types["string"],
                                       <<LocalIdentifier(TPointer(TInt(8)), st.next_id + 1)>>)),
                LocalIdentifier(m.types["string"], st.next_id + 2))

\* ClassConstruction: the Store that follows the lowered initializer r
StoreInit(r, gep_id) == IF r.st.panic THEN r.st ELSE Push(r.st, Store(r.val, gep_id))

FieldGepOneBased(st, base, i) == Push(Alloc(st, 1), GEP(st.next_id, base, <<0, i>>))

\* ClassConstruction: the GEP to field i (one-based here, zero-based in the index path)
FieldGep(st, base, i) == Push(Alloc(st, 1), GEP(st.next_id, base, <<0, i - 1>>))

\* the `for (i, field) in fields.iter().enumerate()` loop of ClassConstruction
StoreFields(fields, i, inits, base, st, m) ==
    IF st.panic \/ i > Len(fields) THEN st
    ELSE IF fields[i].name \notin DOMAIN inits
         THEN [FieldGep(st, base, i) EXCEPT !.panic = TRUE]
         ELSE StoreFields(fields, i + 1, inits, base,
                          StoreInit(ExprFromAst(inits[fields[i].name], FieldGep(st, base, i), m),
                                    st.next_id),
                          m)

\* ClassConstruction: Malloca and BitCast of the class type
AllocaAndCast(st, class_type) ==
    Push(Push(Alloc(st, 2), Malloca(st.next_id, class_type)),
         BitCast(st.next_id + 1, st.next_id, class_type))

\* Body::expr_from_ast, ClassConstruction arm
LowerClassConstruction(expr, st, m) ==
    IF expr.class \notin DOMAIN m.types THEN Abort(Alloc(st, 1))
    ELSE IF m.types[expr.class].t # "Struct"
         THEN Abort(AllocaAndCast(st, m.types[expr.class]))
         ELSE Res(StoreFields(m.types[expr.class].fields, 1, expr.inits,
                              LocalIdentifier(m.types[expr.class], st.next_id + 1),
                              AllocaAndCast(st, m.types[expr.class]), m),
                  LocalIdentifier(m.types[expr.class], st.next_id + 1))

MemberAccessFieldNoLoad(r, typ, access) ==
    IF typ.t # "Struct" THEN Abort(r.st)
    ELSE IF FieldIndex(typ.fields, access) >= Len(typ.fields) THEN Abort(r.st)
    ELSE Res(Push(Alloc(r.st, 1),
                  GEP(r.st.next_id, r.val, <<0, FieldIndex(typ.fields, access)>>)),
             LocalIdentifier(typ.fields[FieldIndex(typ.fields, access) + 1].typ,
                             r.st.next_id))

\* MemberAccess: the field scan, GEP and Load on the resolved type of the base r
MemberAccessField(r, typ, access) ==
    IF typ.t # "Struct" THEN Abort(r.st)
    ELSE IF FieldIndex(typ.fields, access) >= Len(typ.fields) THEN Abort(r.st)
    ELSE Res(Push(Push(Alloc(r.st, 2),
                       GEP(r.st.next_id, r.val, <<0, FieldIndex(typ.fields, access)>>)),
                  Load(r.st.next_id + 1,
                       LocalIdentifier(typ.fields[FieldIndex(typ.fields, access) + 1].typ,
                                       r.st.next_id))),
             LocalIdentifier(typ.fields[FieldIndex(typ.fields, access) + 1].typ,
                             r.st.next_id + 1))

\* MemberAccess: one level of Named indirection on the type of the base r
MemberAccessOn(r, access, m) ==
    IF r.st.panic THEN r
    ELSE IF ExprType(r.val).t = "Named"
         THEN IF ExprType(r.val).name \notin DOMAIN m.types THEN Abort(r.st)
              ELSE MemberAccessField(r, m.types[ExprType(r.val).name], access)
         ELSE MemberAccessField(r, ExprType(r.val), access)

\* Body::expr_from_ast, MemberAccess arm
LowerMemberAccess(expr, st, m) ==
    MemberAccessOn(ExprFromAst(expr.from, st, m), expr.access, m)

BinaryEmitSelf(id, l, r) ==
    IF r.st.panic THEN Abort(r.st)
    ELSE Res(Push(r.st, BinaryOperation(id, "add", LocalIdentifier(ExprType(l.val), id), r.val)),
             LocalIdentifier(ExprType(l.val), id))

\* Binary: the BinaryOperation pushed after both operands l and r
BinaryEmit(id, l, r) ==
    IF r.st.panic THEN Abort(r.st)
    ELSE Res(Push(r.st, BinaryOperation(id, "add", l.val, r.val)),
             LocalIdentifier(ExprType(l.val), id))

\* Binary: the right operand is lowered after the left one
BinaryRhs(expr, id, l, m) == BinaryEmit(id, l, ExprFromAst(expr.rhs, l.st, m))

\* Body::expr_from_ast, Binary arm: the id is allocated before the operands
LowerBinary(expr, st, m) ==
    BinaryRhs(expr, st.next_id, ExprFromAst(expr.lhs, Alloc(st, 1), m), m)

AppendArgReversed(acc, r) == [st |-> r.st, vals |-> <<r.val>> \o acc.vals]

\* `.collect()` of the argument map: the lowered value r joins the vector
AppendArg(acc, r) == [st |-> r.st, vals |-> Append(acc.vals, r.val)]

\* `args.iter().map(|arg| self.expr_from_ast(&arg.expr, module))`
LowerArgs(args, acc, m) ==
    IF args = <<>> THEN acc
    ELSE LowerArgs(Tail(args), AppendArg(acc, ExprFromAst(Head(args), acc.st, m)), m)

\* FuncCall: the FunctionCall pushed after the lowered arguments a
CallEmit(name, ret_type, a) ==
    IF a.st.panic THEN Abort(a.st)
    ELSE Res(Push(Alloc(a.st, 1),
                  FunctionCall(a.st.next_id, MangleCall(name), ret_type, a.vals)),
             LocalIdentifier(ret_type, a.st.next_id))

\* FuncCall: the callee c must be an Identifier naming a known function
CallOn(c, args, m) ==
    IF c.st.panic THEN c
    ELSE IF c.val.e # "Identifier" THEN Abort(c.st)
    ELSE IF c.val.name \notin DOMAIN m.known_functions THEN Abort(c.st)
    ELSE CallEmit(c.val.name, m.known_functions[c.val.name],
                  LowerArgs(args, [st |-> c.st, vals |-> <<>>], m))

\* Body::expr_from_ast, FuncCall arm
LowerFuncCall(expr, st, m) == CallOn(ExprFromAst(expr.f, st, m), expr.args, m)

LowerIdentifierGlobalFirst(expr, st, m) ==
    IF expr.name \in DOMAIN m.known_functions
    THEN Res(st, Identifier(m.known_functions[expr.name], expr.name))
    ELSE IF expr.name \in DOMAIN st.locals
    THEN Res(st, Identifier(st.locals[expr.name].typ, st.locals[expr.name].name))
    ELSE Abort(st)

\* Body::expr_from_ast, Identifier arm (Body::lookup_variable first)
LowerIdentifier(expr, st, m) ==
    IF expr.name \in DOMAIN st.locals
    THEN Res(st, Identifier(st.locals[expr.name].typ, st.locals[expr.name].name))
    ELSE IF expr.name \in DOMAIN m.known_functions
    THEN Res(st, Identifier(m.known_functions[expr.name], expr.name))
    ELSE Abort(st)

\* Body::expr_from_ast
ExprFromAst(expr, st, m) ==
    IF st.panic THEN Res(st, I64(0))
    ELSE CASE expr.k = "String" -> LowerString(expr, st, m)
           [] expr.k = "ClassConstruction" -> LowerClassConstruction(expr, st, m)
           [] expr.k = "MemberAccess" -> LowerMemberAccess(expr, st, m)
           [] expr.k = "Binary" -> LowerBinary(expr, st, m)
           [] expr.k = "FuncCall" -> LowerFuncCall(expr, st, m)
           [] expr.k = "Identifier" -> LowerIdentifier(expr, st, m)
           [] OTHER -> IF ExprFromLiteralPanics(expr) THEN Abort(st)
                       ELSE Res(st, ExprFromLiteral(expr))

ClauseBranchOtherLabel(c, if_then_label, else_then_label) ==
    IF c.st.panic THEN c.st
    ELSE Push(Push(c.st, Branch(c.val, if_then_label, else_then_label)),
              Label(else_then_label))

\* IfBlock: the Branch on the lowered condition c and the `then` label
ClauseBranch(c, if_then_label, else_then_label) ==
    IF c.st.panic THEN c.st
    ELSE Push(Push(c.st, Branch(c.val, if_then_label, else_then_label)),
              Label(if_then_label))

CloseBlockNoGoto(st, leave_label, next_label) ==
    IF st.panic THEN st ELSE Push(st, Label(next_label))

\* IfBlock: after a lowered block, `if !end_with_terminator() { goto(leave) }`
\* and then the label that follows the block
CloseBlock(st, leave_label, next_label) ==
    IF st.panic THEN st
    ELSE IF ~EndWithTerminator(st.instructions)
         THEN Push(GotoLabel(st, leave_label), Label(next_label))
         ELSE Push(st, Label(next_label))

\* the `for (cond, then_block) in clauses` loop of the IfBlock arm
LowerClauses(clauses, st, m, leave_label) ==
    IF st.panic \/ clauses = <<>> THEN st
    ELSE LowerClauses(
            Tail(clauses),
            CloseBlock(
               GenerateInstructions(
                  Head(clauses).block,
                  ClauseBranch(ExprFromAst(Head(clauses).cond, Alloc(st, 2), m),
                               st.next_id, st.next_id + 1),
                  m),
               leave_label, st.next_id + 1),
            m, leave_label)

LowerIfBlockNoGoto(stmt, st, m) ==
    Push(GenerateInstructions(stmt.else_block,
                              LowerClauses(stmt.clauses, Alloc(st, 1), m, st.next_id),
                              m),
         Label(st.next_id))

\* Body::generate_instructions, IfBlock arm: leave label, clauses, else-block
LowerIfBlock(stmt, st, m) ==
    CloseBlock(GenerateInstructions(stmt.else_block,
                                    LowerClauses(stmt.clauses, Alloc(st, 1), m, st.next_id),
                                    m),
               st.next_id, st.next_id)

\* the Return pushed after the lowered value r
ReturnValue(r) == IF r.st.panic THEN r.st ELSE Push(r.st, Return(<<r.val>>))

\* Body::generate_instructions, one iteration of `for stmt in stmts`
LowerStatement(stmt, st, m) ==
    CASE stmt.k = "Return" ->
           IF stmt.opt = <<>> THEN Push(st, Return(<<>>))
           ELSE ReturnValue(ExprFromAst(stmt.opt[1], st, m))
      [] stmt.k = "Expression" -> ExprFromAst(stmt.expr, st, m).st
      [] stmt.k = "IfBlock" -> LowerIfBlock(stmt, st, m)
      [] stmt.k = "Variable" -> ExprFromAst(stmt.expr, st, m).st

\* Body::generate_instructions
GenerateInstructions(stmts, st, m) ==
    IF st.panic \/ stmts = <<>> THEN st
    ELSE GenerateInstructions(Tail(stmts), LowerStatement(Head(stmts), st, m), m)

(***************************************************************************)
(* Bounds of the enumerated inputs                                         *)
(***************************************************************************)
MaxArgs == 2      \* arguments of an enumerated call
MaxInner == 2     \* statements of an enumerated clause block / else-block
MaxClauses == 2   \* clauses of an enumerated if chain
MaxDecls == 3     \* declarations of an enumerated program of the checker
MaxLen == 2       \* length of an enumerated Array type

(***************************************************************************)
(* Input programs of the code generator                                    *)
(***************************************************************************)
ClassString == TopClass("string", <<>>)
ClassC == TopClass("C", <<MField("x", PT("int")), MField("y", PT("int"))>>)
FooFn == TopFn(Fn("foo", <<Param("x", PT("int"))>>, PT("void"), <<BodyBlock(<<>>)>>))
BarFn == TopFn(Fn("bar", <<>>, PT("int"), <<>>))
OkFn == TopFn(Fn("ok", <<>>, PT("bool"), <<>>))
GlobalX == TopVar("x", PT("int"), EInt(1))
AddFn == TopFn(Fn("add", <<Param("x", PT("int")), Param("y", PT("bool"))>>, PT("int"), <<>>))

MainParams == <<Param("a", PT("int")), Param("p", PT("C"))>>
MainFn(rt, body) == TopFn(Fn("main", MainParams, PT(rt), <<body>>))

CallBar == ECall(EId("bar"), <<>>)
CallOk == ECall(EId("ok"), <<>>)
ArgExprs == {EInt(1), EId("a"), CallBar, EBin(EId("a"), EInt(1))}
CallExprs == {ECall(EId("foo"), args) : args \in SeqsUpTo(ArgExprs, MaxArgs)}
OtherExprs ==
    { EInt(2), EStr("hi"),
      ENew("C", [x |-> EInt(1), y |-> EId("a")]),
      ENew("C", [x |-> CallBar, y |-> EBin(CallBar, EInt(1))]),
      EMember(EId("p"), "x"), EMember(EId("p"), "y"),
      EMember(ENew("C", [x |-> EInt(1), y |-> EInt(2)]), "y"),
      EBin(EMember(EId("p"), "x"), CallBar),
      EBin(EBin(EId("a"), CallBar), EMember(EId("p"), "y")),
      ECall(EId("foo"), <<EStr("a"), EStr("a")>>),
      ECall(EId("foo"), <<ECall(EId("foo"), <<CallBar>>), EMember(EId("p"), "x")>>) }
ValueExprs == CallExprs \cup OtherExprs

CallFoo1 == SExpr(ECall(EId("foo"), <<EInt(1)>>))
InnerStmts == {SReturn(<<>>), CallFoo1}
InnerBlocks == SeqsUpTo(InnerStmts, MaxInner)
TinyBlocks == {<<>>, <<SReturn(<<>>)>>, <<CallFoo1>>}
PlainIfs ==
    {SIf(<<Clause(EBool(TRUE), b)>>, el) : b \in InnerBlocks, el \in InnerBlocks}
    \cup {SIf(cl, el) :
            cl \in SeqsFromTo({Clause(EBool(TRUE), b) : b \in TinyBlocks}, 2, MaxClauses),
            el \in TinyBlocks}
CondIfs == {SIf(<<Clause(CallOk, b)>>, el) : b \in TinyBlocks, el \in TinyBlocks}
TinyIfs == {SIf(<<Clause(EBool(TRUE), b)>>, el) : b \in TinyBlocks, el \in TinyBlocks}
NestedIfs ==
    {SIf(<<Clause(EBool(TRUE), <<i>>)>>, el) : i \in TinyIfs, el \in TinyBlocks}
    \cup {SIf(<<Clause(CallOk, b)>>, <<i>>) : i \in TinyIfs, b \in TinyBlocks}
IfStmts == PlainIfs \cup CondIfs \cup NestedIfs
Prefixes == {<<>>, <<SVar("y", PT("string"), EStr("s"))>>,
             <<SVar("c", PT("C"), ENew("C", [x |-> EInt(1), y |-> EId("a")]))>>}
Suffixes == {<<>>, <<SReturn(<<>>)>>}
IfBodies == {BodyBlock(pre \o <<i>> \o suf) : pre \in Prefixes, i \in IfStmts, suf \in Suffixes}
CallBodies == {BodyBlock(<<SExpr(c)>>) : c \in CallExprs}
              \cup {BodyBlock(<<SExpr(c), SExpr(d)>>) : c \in CallExprs, d \in {CallBar}}
ExprBodies == {BodyExpr(e) : e \in ValueExprs}

Prelude == <<ClassString, ClassC>>

\* the prelude class string with its constructor, and a class with methods
ClassStringNew ==
    TopClass("string",
             <<MStatic(Fn("new", <<Param("s", PT("_c_string"))>>, PT("string"), <<>>))>>)
ClassP ==
    TopClass("P", <<MField("v", PT("int")),
                    MStatic(Fn("make", <<>>, PT("int"), <<>>)),
                    MMethod(Fn("get", <<>>, PT("bool"), <<>>))>>)
MethodPrelude == <<ClassStringNew, ClassC, ClassP>>
MethodCallBodies ==
    {BodyExpr(e) : e \in {ECall(EId("P::make"), <<>>), ECall(EId("make"), <<>>),
                          ECall(EId("P::get"), <<>>), ECall(EId("add"), <<EInt(1), EBool(TRUE)>>),
                          CallBar, EStr("s")}}

\* a second function with a body of its own: an if chain and a string literal
SideFn ==
    TopFn(Fn("side", <<>>, PT("void"),
             <<BodyBlock(<<SIf(<<Clause(EBool(TRUE), <<>>)>>, <<>>), SExpr(EStr("t"))>>)>>))
TwoBodyBodies ==
    {BodyBlock(<<i>>) : i \in CondIfs} \cup {BodyBlock(<<SExpr(EStr("u"))>>)}

\* bodies of main that name globals, locals, parameters and unknown names;
\* `a` is a parameter of main and a function, `ok` a function, `x` a global
AFn == TopFn(Fn("a", <<>>, PT("bool"), <<>>))
NameBodies ==
    {BodyExpr(e) : e \in {EId("x"), EBin(EId("x"), EInt(1)), EId("a"), EId("bar"),
                          EId("zz"), EBin(EId("a"), EId("zz"))}}
    \cup {BodyBlock(<<SVar(n, PT("int"), EInt(1)), SReturn(<<EId(n)>>)>>) :
            n \in {"y", "ok", "a"}}
    \cup {BodyBlock(<<SVar("y", PT("int"), CallBar), SReturn(<<EBin(EId("a"), EId("y"))>>)>>)}

\* bodies of main that construct C (fields x, y) and read members
ConstructExprs ==
    {ENew("C", [x |-> EInt(1)]), ENew("C", [y |-> CallBar]),
     ENew("C", [x |-> EInt(1), y |-> EStr("s"), z |-> CallBar]),
     ENew("C", [x |-> ENew("C", [x |-> EId("a"), y |-> CallBar]), y |-> EInt(2)]),
     ENew("C", [x |-> ENew("C", [y |-> EInt(2)]), y |-> EInt(2)])}
\* a class that declares the field name x twice
ClassTwice ==
    TopClass("D", <<MField("x", PT("int")), MField("y", PT("bool")), MField("x", PT("f64"))>>)
MemberExprs ==
    {EMember(EId("a"), "x"), EMember(EId("p"), "zz"), EMember(CallBar, "x"),
     EMember(ENew("C", [x |-> CallBar, y |-> EInt(2)]), "x"),
     EMember(ENew("C", [x |-> CallBar, y |-> EInt(2)]), "zz"),
     EMember(ENew("D", [x |-> EInt(1), y |-> EBool(TRUE)]), "x"),
     EMember(ENew("D", [x |-> EInt(1), y |-> EBool(TRUE)]), "y"),
     EMember(EMember(EId("p"), "x"), "y")}
FieldBodies == {BodyExpr(e) : e \in ConstructExprs \cup MemberExprs}

GenPrograms ==
    {Prelude \o <<FooFn, BarFn, OkFn, MainFn("void", b), GlobalX>> : b \in IfBodies}
    \cup {Prelude \o <<MainFn("int", b), GlobalX, BarFn, FooFn, OkFn>> :
            b \in ExprBodies \cup CallBodies}
    \cup {Prelude \o <<AddFn, BarFn, FooFn, MainFn("int", b)>> :
            b \in ExprBodies \cup CallBodies}
    \cup {MethodPrelude \o <<AddFn, BarFn, MainFn("int", b), GlobalX>> :
            b \in MethodCallBodies}
    \cup {Prelude \o <<SideFn, FooFn, BarFn, OkFn, MainFn("void", b)>> :
            b \in TwoBodyBodies}
    \cup {Prelude \o <<GlobalX, AFn, BarFn, OkFn, MainFn("int", b)>> : b \in NameBodies}
    \cup {Prelude \o <<MainFn("int", b), AFn, BarFn, OkFn, GlobalX>> : b \in NameBodies}
    \cup {Prelude \o <<ClassTwice, BarFn, MainFn("int", b)>> : b \in FieldBodies}

(***************************************************************************)
(* The code generator                                                      *)
(***************************************************************************)
\* the struct fields Module::push_type keeps: ClassMember::Field only
RECURSIVE FieldMembers(_)
FieldMembers(members) ==
    IF members = <<>> THEN <<>>
    ELSE IF Head(members).k = "Field"
         THEN <<Head(members)>> \o FieldMembers(Tail(members))
         ELSE FieldMembers(Tail(members))

\* Module::push_type
PushTypePanics(c, tys) ==
    \E i \in 1..Len(FieldMembers(c.members)) :
        TypeFromAstPanics(FieldMembers(c.members)[i].typ, tys)

PushTypeValue(c, tys) ==
    LET fs == FieldMembers(c.members)
    IN Put(tys, c.name,
           TStruct(c.name, [i \in 1..Len(fs) |->
                              [name |-> fs[i].name, typ |-> TypeFromAst(fs[i].typ, tys)]]))

\* the declarations both passes of the generator walk, in source order
Work == program

IdleChecker ==
    /\ ck_pass = 0
    /\ ck_idx = 0
    /\ type_env = EmptyMap
    /\ result = "idle"
    /\ ck_site = [stmt |-> [k |-> "none"], last |-> FALSE, env |-> <<>>]

\* Module::new and an input program
Init ==
    /\ program \in GenPrograms
    /\ pc = "prepass"
    /\ idx = 1
    /\ known_functions = EmptyMap
    /\ known_variables = EmptyMap
    /\ types = EmptyMap
    /\ functions = EmptyMap
    /\ variables = <<>>
    /\ cur = [instructions |-> <<>>, variables |-> EmptyMap]
    /\ counter = 0
    /\ pos = 0
    /\ cells = <<>>
    /\ IdleChecker
    /\ IdleTypes

\* pre-pass over a Class: Module::push_type
PushType ==
    /\ pc = "prepass" /\ idx <= Len(Work) /\ Work[idx].k = "Class"
    /\ IF PushTypePanics(Work[idx], types)
       THEN pc' = "abort" /\ UNCHANGED <<idx, types>>
       ELSE pc' = pc /\ idx' = idx + 1 /\ types' = PushTypeValue(Work[idx], types)
    /\ UNCHANGED <<program, known_functions, known_variables, functions, variables,
                   cur, counter, pos, cells, ck_vars, ty_vars>>

\* pre-pass over a Function: Module::remember_function
RememberFunction ==
    /\ pc = "prepass" /\ idx <= Len(Work) /\ Work[idx].k = "Function"
    /\ IF TypeFromAstPanics(Work[idx].fn.ret_typ, types)
       THEN pc' = "abort" /\ UNCHANGED <<idx, known_functions>>
       ELSE /\ pc' = pc /\ idx' = idx + 1
            /\ known_functions' = Put(known_functions, Work[idx].fn.name,
                                      TypeFromAst(Work[idx].fn.ret_typ, types))
    /\ UNCHANGED <<program, known_variables, types, functions, variables,
                   cur, counter, pos, cells, ck_vars, ty_vars>>

\* pre-pass over a Variable: Module::remember_variable
RememberVariable ==
    /\ pc = "prepass" /\ idx <= Len(Work) /\ Work[idx].k = "Variable"
    /\ IF TypeFromAstPanics(Work[idx].typ, types)
       THEN pc' = "abort" /\ UNCHANGED <<idx, known_variables>>
       ELSE /\ pc' = pc /\ idx' = idx + 1
            /\ known_variables' = Put(known_variables, Work[idx].name,
                                      TypeFromAst(Work[idx].typ, types))
    /\ UNCHANGED <<program, known_functions, types, functions, variables,
                   cur, counter, pos, cells, ck_vars, ty_vars>>

\* the pre-pass is over: the lowering pass starts at the first declaration
EndPrepass ==
    /\ pc = "prepass" /\ idx > Len(Work)
    /\ pc' = "lower" /\ idx' = 1
    /\ UNCHANGED <<program, known_functions, known_variables, types, functions,
                   variables, cur, counter, pos, cells, ck_vars, ty_vars>>

ParamsPanic(f, tys) ==
    \E i \in 1..Len(f.parameters) : TypeFromAstPanics(f.parameters[i].typ, tys)

\* the parameter loop of Body::from_ast
ParamLocals(f, tys) ==
    [n \in {f.parameters[i].name : i \in 1..Len(f.parameters)} |->
        LET i == CHOOSE j \in 1..Len(f.parameters) :
                    /\ f.parameters[j].name = n
                    /\ \A l \in (j + 1)..Len(f.parameters) : f.parameters[l].name # n
        IN [typ |-> TypeFromAst(f.parameters[i].typ, tys), name |-> n]]

\* Function::new
FunctionNew(name, f, ret_typ, body, tys) ==
    [name |-> "@" \o name,
     parameters |-> [i \in 1..Len(f.parameters) |->
                       [name |-> f.parameters[i].name,
                        typ |-> TypeFromAst(f.parameters[i].typ, tys)]],
     ret_typ |-> ret_typ,
     body |-> body]

\* Module::push_function
PushFunction(fs, f) == Put(fs, f.name, f)

BodyFromAstNoReturn(f, st0, m) ==
    IF f.body[1].k = "Expr"
    THEN ExprFromAst(f.body[1].expr, st0, m).st
    ELSE GenerateInstructions(f.body[1].statements, st0, m)

\* the body of Body::from_ast up to the numbering loop
BodyFromAst(f, st0, m) ==
    IF f.body[1].k = "Expr"
    THEN ReturnValue(ExprFromAst(f.body[1].expr, st0, m))
    ELSE GenerateInstructions(f.body[1].statements, st0, m)

\* the Body and the Module as Body::from_ast leaves them before numbering
BodyBuilt(st) ==
    /\ pc' = IF st.panic THEN "abort" ELSE "number"
    /\ cur' = [instructions |-> st.instructions, variables |-> st.locals]
    /\ variables' = st.globals
    /\ cells' = cells \o [i \in 1..(st.next_id - 1 - Len(cells)) |-> 0]
    /\ counter' = 1
    /\ pos' = 1

\* Function::from_ast of a declaration: body is None
DeclareFunction ==
    /\ pc = "lower" /\ idx <= Len(Work) /\ Work[idx].k = "Function"
    /\ Work[idx].fn.body = <<>>
    /\ LET f == Work[idx].fn
       IN IF TypeFromAstPanics(f.ret_typ, types) \/ ParamsPanic(f, types)
          THEN pc' = "abort" /\ UNCHANGED <<idx, functions>>
          ELSE /\ pc' = pc /\ idx' = idx + 1
               /\ functions' = PushFunction(functions,
                      FunctionNew(f.name, f, TypeFromAst(f.ret_typ, types), <<>>, types))
    /\ UNCHANGED <<program, known_functions, known_variables, types, variables,
                   cur, counter, pos, cells, ck_vars, ty_vars>>

\* Body::from_ast: parameters, then the instruction stream of the body
BuildBody ==
    /\ pc = "lower" /\ idx <= Len(Work) /\ Work[idx].k = "Function"
    /\ Work[idx].fn.body # <<>>
    /\ IF ParamsPanic(Work[idx].fn, types)
       THEN pc' = "abort" /\ UNCHANGED <<variables, cur, counter, pos, cells>>
       ELSE BodyBuilt(BodyFromAst(Work[idx].fn,
                                  [instructions |-> <<>>,
                                   locals |-> ParamLocals(Work[idx].fn, types),
                                   next_id |-> Len(cells) + 1,
                                   globals |-> variables,
                                   panic |-> FALSE],
                                  [types |-> types, known_functions |-> known_functions]))
    /\ UNCHANGED <<program, idx, known_functions, known_variables, types, functions,
                   ck_vars, ty_vars>>

\* one iteration of `for inst in &mut body.instructions`
NumberStep ==
    /\ pc = "number" /\ pos <= Len(cur.instructions)
    /\ LET inst == cur.instructions[pos]
       IN IF ProducesId(inst)
          THEN /\ cells' = [cells EXCEPT ![IdCellOf(inst)] = counter]
               /\ counter' = counter + 1
          ELSE UNCHANGED <<cells, counter>>
    /\ pos' = pos + 1
    /\ UNCHANGED <<program, pc, idx, known_functions, known_variables, types,
                   functions, variables, cur, ck_vars, ty_vars>>

\* the rest of Function::from_ast, then Module::push_function
FinishFunction ==
    /\ pc = "number" /\ pos > Len(cur.instructions)
    /\ LET f == Work[idx].fn
       IN IF TypeFromAstPanics(f.ret_typ, types)
          THEN pc' = "abort" /\ UNCHANGED <<idx, functions>>
          ELSE /\ pc' = "lower" /\ idx' = idx + 1
               /\ functions' = PushFunction(functions,
                      FunctionNew(f.name, f, TypeFromAst(f.ret_typ, types), <<cur>>, types))
    /\ UNCHANGED <<program, known_functions, known_variables, types, variables,
                   cur, counter, pos, cells, ck_vars, ty_vars>>

\* lowering pass over a Variable: Variable::new on the literal initializer
LowerGlobal ==
    /\ pc = "lower" /\ idx <= Len(Work) /\ Work[idx].k = "Variable"
    /\ IF ExprFromLiteralPanics(Work[idx].expr)
       THEN pc' = "abort" /\ UNCHANGED <<idx, variables>>
       ELSE /\ pc' = pc /\ idx' = idx + 1
            /\ variables' = Append(variables,
                                   VariableNew(Work[idx].name, ExprFromLiteral(Work[idx].expr)))
    /\ UNCHANGED <<program, known_functions, known_variables, types, functions,
                   cur, counter, pos, cells, ck_vars, ty_vars>>

\* the methods and static methods of a class, in member order
RECURSIVE MethodMembers(_)
MethodMembers(members) ==
    IF members = <<>> THEN <<>>
    ELSE IF Head(members).k \in {"Method", "StaticMethod"}
         THEN <<Head(members)>> \o MethodMembers(Tail(members))
         ELSE MethodMembers(Tail(members))

\* Function::from_ast: function_name when class_name is Some
MethodName(class_name, name) == "\"" \o class_name \o "::" \o name \o "\""

MethodsPanic(ms, tys) ==
    \E i \in 1..Len(ms) :
        TypeFromAstPanics(ms[i].fn.ret_typ, tys) \/ ParamsPanic(ms[i].fn, tys)

\* Function::from_ast with Some(class_name) on each method declaration, in
\* member order, each followed by Module::push_function
RECURSIVE PushMethods(_, _, _, _)
PushMethods(ms, class_name, fs, tys) ==
    IF ms = <<>> THEN fs
    ELSE PushMethods(Tail(ms), class_name,
                     PushFunction(fs, FunctionNew(MethodName(class_name, Head(ms).fn.name),
                                                  Head(ms).fn,
                                                  TypeFromAst(Head(ms).fn.ret_typ, tys),
                                                  <<>>, tys)),
                     tys)

\* lowering pass over a Class with method declarations
LowerMethods ==
    /\ pc = "lower" /\ idx <= Len(Work) /\ Work[idx].k = "Class"
    /\ MethodMembers(Work[idx].members) # <<>>
    /\ IF MethodsPanic(MethodMembers(Work[idx].members), types)
       THEN pc' = "abort" /\ UNCHANGED <<idx, functions>>
       ELSE /\ pc' = pc /\ idx' = idx + 1
            /\ functions' = PushMethods(MethodMembers(Work[idx].members), Work[idx].name,
                                        functions, types)
    /\ UNCHANGED <<program, known_functions, known_variables, types, variables,
                   cur, counter, pos, cells, ck_vars, ty_vars>>

\* lowering pass over a Class without methods, or a Trait: nothing is lowered
SkipType ==
    /\ pc = "lower" /\ idx <= Len(Work) /\ Work[idx].k \in {"Class", "Trait"}
    /\ Work[idx].k = "Class" => MethodMembers(Work[idx].members) = <<>>
    /\ idx' = idx + 1
    /\ UNCHANGED <<program, pc, known_functions, known_variables, types, functions,
                   variables, cur, counter, pos, cells, ck_vars, ty_vars>>

\* every declaration is lowered: the Module is complete
EndLowering ==
    /\ pc = "lower" /\ idx > Len(Work)
    /\ pc' = "done"
    /\ UNCHANGED <<program, idx, known_functions, known_variables, types, functions,
                   variables, cur, counter, pos, cells, ck_vars, ty_vars>>

Next ==
    \/ PushType
    \/ RememberFunction
    \/ RememberVariable
    \/ EndPrepass
    \/ DeclareFunction
    \/ BuildBody
    \/ NumberStep
    \/ FinishFunction
    \/ LowerGlobal
    \/ LowerMethods
    \/ SkipType
    \/ EndLowering

Spec == Init /\ [][Next]_vars

(***************************************************************************)
(* Properties of the code generator (checked under Spec)                   *)
(***************************************************************************)
\* the bodies whose lowering and numbering are complete
FinishedBodies == {functions[n].body[1].instructions : n \in {x \in DOMAIN functions : functions[x].body # <<>>}}

NumberedOps == {"Label", "Load", "Malloca", "BitCast", "GEP", "FunctionCall", "BinaryOperation"}
UnnumberedOps == {"Return", "Branch", "Goto", "Store"}
TerminatorOps == {"Return", "Branch", "Goto"}

\* how many of the first p instructions are numbered ones
NumberedUpTo(ins, p) == Cardinality({q \in 1..p : ins[q].op \in NumberedOps})

NumberOf(inst) == cells[IF inst.op = "Label" THEN inst.label ELSE inst.id]

SequentialNumbers(ins) ==
    /\ \A p \in 1..Len(ins) : ins[p].op \in NumberedOps \cup UnnumberedOps
    /\ \A p \in 1..Len(ins) :
          ins[p].op \in NumberedOps => NumberOf(ins[p]) = NumberedUpTo(ins, p)
    /\ \A p, q \in 1..Len(ins) :
          (p # q /\ ins[p].op \in NumberedOps /\ ins[q].op \in NumberedOps)
             => NumberOf(ins[p]) # NumberOf(ins[q])
    /\ \A v \in {NumberOf(ins[p]) : p \in {q \in 1..Len(ins) : ins[q].op \in NumberedOps}} :
          1 <= v /\ v <= NumberedUpTo(ins, Len(ins))
    /\ NumberedUpTo(ins, Len(ins)) > 0 =>
          \E p \in 1..Len(ins) : ins[p].op \in NumberedOps
                                 /\ NumberOf(ins[p]) = NumberedUpTo(ins, Len(ins))

\* C1: after the numbering pass the k-th instruction among Label, Load,
\* Malloca, BitCast, GEP, FunctionCall and BinaryOperation (in stream order)
\* carries the number k, counted from 1; Return, Branch, Goto and Store do not
\* advance the counter; so the numbers of one body are pairwise distinct and
\* the largest equals the count of numbered instructions.
C1_SequentialNumbering ==
    /\ \A ins \in FinishedBodies : SequentialNumbers(ins)
    /\ pc = "number" =>
          /\ counter = 1 + NumberedUpTo(cur.instructions, pos - 1)
          /\ \A p \in 1..(pos - 1) :
                cur.instructions[p].op \in NumberedOps
                   => NumberOf(cur.instructions[p]) = NumberedUpTo(cur.instructions, p)

\* a finished body in which a Store and a Branch precede numbered instructions,
\* so the numbers lag behind the stream positions
C1_Witness ==
    /\ pc = "done"
    /\ \E ins \in FinishedBodies :
          /\ \E p \in 1..Len(ins) : ins[p].op = "Store" /\ p < Len(ins)
                                    /\ ins[p + 1].op = "GEP" /\ NumberOf(ins[p + 1]) = p
          /\ \E p \in 1..Len(ins) : ins[p].op = "Label" /\ ins[p - 1].op = "Goto"
                                    /\ NumberOf(ins[p]) < p - 3

\* ---- C2 ----
ThenLabels(ins) == {ins[p].if_true : p \in {q \in 1..Len(ins) : ins[q].op = "Branch"}}
ElseLabels(ins) == {ins[p].if_false : p \in {q \in 1..Len(ins) : ins[q].op = "Branch"}}
DefinedLabels(ins) == {ins[p].label : p \in {q \in 1..Len(ins) : ins[q].op = "Label"}}
LeaveLabels(ins) == DefinedLabels(ins) \ (ThenLabels(ins) \cup ElseLabels(ins))
LabelPos(ins, l) == CHOOSE p \in 1..Len(ins) : ins[p].op = "Label" /\ ins[p].label = l
SetMax(S) == CHOOSE x \in S : \A y \in S : y <= x

\* the positions of the labels that follow a clause block (`next`) or an
\* else-block (`leave`)
JoinPositions(ins) ==
    {p \in 1..Len(ins) : ins[p].op = "Label" /\ ins[p].label \notin ThenLabels(ins)}

\* the leave label of the chain whose block ends right before the label at p:
\* the label itself when it is a leave label, otherwise the youngest leave cell
\* older than the `next` label at p that is still undefined at p
LeaveOf(ins, p) ==
    IF ins[p].label \in LeaveLabels(ins) THEN ins[p].label
    ELSE SetMax({l \in LeaveLabels(ins) : l < ins[p].label /\ LabelPos(ins, l) > p})

ClosedByReturn(ins, p) == ins[p - 1].op = "Return"
ClosedByOneGoto(ins, p) ==
    /\ ins[p - 1] = [op |-> "Goto", label |-> LeaveOf(ins, p)]
    /\ ins[p - 2].op \notin TerminatorOps

GotoElision(ins) ==
    /\ \A p \in JoinPositions(ins) :
          /\ p > 2
          /\ ClosedByReturn(ins, p) \/ ClosedByOneGoto(ins, p)
    /\ \A q \in 1..Len(ins) :
          ins[q].op = "Goto" => q < Len(ins) /\ (q + 1) \in JoinPositions(ins)

EndsInReturn(block) == block # <<>> /\ Last(block).k = "Return"

\* how many clause blocks and else-blocks of the statements (nested ones
\* included) do / do not end in a return statement
RECURSIVE CountBlocks(_, _)
RECURSIVE CountClauseBlocks(_, _)
CountOneBlock(block, returning) ==
    (IF EndsInReturn(block) = returning THEN 1 ELSE 0) + CountBlocks(block, returning)
CountClauseBlocks(clauses, returning) ==
    IF clauses = <<>> THEN 0
    ELSE CountOneBlock(Head(clauses).block, returning)
         + CountClauseBlocks(Tail(clauses), returning)
CountBlocks(stmts, returning) ==
    IF stmts = <<>> THEN 0
    ELSE (IF Head(stmts).k = "IfBlock"
          THEN CountClauseBlocks(Head(stmts).clauses, returning)
               + CountOneBlock(Head(stmts).else_block, returning)
          ELSE 0)
         + CountBlocks(Tail(stmts), returning)

\* the top-level functions of the program that have a block body and are lowered
LoweredBlockFns ==
    {i \in 1..Len(program) :
        /\ program[i].k = "Function"
        /\ program[i].fn.body # <<>>
        /\ program[i].fn.body[1].k = "Block"
        /\ ("@" \o program[i].fn.name) \in DOMAIN functions}

StreamOf(i) == functions["@" \o program[i].fn.name].body[1].instructions
StatementsOf(i) == program[i].fn.body[1].statements

\* C2: in a lowered if chain a clause block (or the else-block) that ends in a
\* Return is followed directly by its next (leave) label, with no Goto; a block
\* that does not end in a terminator, an instruction-free block included, is
\* followed by exactly one Goto(leave) and then the label.
C2_TerminatorElision ==
    \A i \in LoweredBlockFns :
        /\ GotoElision(StreamOf(i))
        /\ Cardinality({q \in 1..Len(StreamOf(i)) : StreamOf(i)[q].op = "Goto"})
              = CountBlocks(StatementsOf(i), FALSE)
        /\ Cardinality({p \in JoinPositions(StreamOf(i)) : ClosedByReturn(StreamOf(i), p)})
              = CountBlocks(StatementsOf(i), TRUE)

\* a lowered chain with a returning clause block (no Goto), an empty clause
\* block (Goto right after its then label) and a nested chain
C2_Witness ==
    /\ pc = "done"
    /\ \E i \in LoweredBlockFns :
          LET ins == StreamOf(i)
          IN /\ \E p \in JoinPositions(ins) : ClosedByReturn(ins, p)
             /\ \E p \in JoinPositions(ins) : ClosedByOneGoto(ins, p) /\ ins[p - 2].op = "Label"
             /\ \E p \in JoinPositions(ins) :
                   ClosedByOneGoto(ins, p) /\ ins[p - 2].op = "FunctionCall"
             /\ Cardinality(LeaveLabels(ins)) > 1

\* ---- C10 ----
\* the number of instructions the lowering of an expression appends
RECURSIVE EmitCount(_)
RECURSIVE EmitCountAll(_)
EmitCount(e) ==
    CASE e.k = "FuncCall" -> EmitCountAll(e.args) + 1
      [] e.k = "Binary" -> EmitCount(e.lhs) + EmitCount(e.rhs) + 1
      [] OTHER -> 0
EmitCountAll(es) ==
    IF es = <<>> THEN 0 ELSE EmitCount(Head(es)) + EmitCountAll(Tail(es))

\* expressions built from calls by name, integer literals, parameters and sums
RECURSIVE CallLike(_)
CallLike(e) ==
    CASE e.k = "FuncCall" ->
            e.f.k = "Identifier" /\ \A i \in 1..Len(e.args) : CallLike(e.args[i])
      [] e.k = "Binary" -> CallLike(e.lhs) /\ CallLike(e.rhs)
      [] OTHER -> e.k \in {"Int", "Identifier"}

\* the declared return type of the top-level function `name`, as a type name
DeclaredRet(name) ==
    LET i == CHOOSE j \in 1..Len(program) :
                 program[j].k = "Function" /\ program[j].fn.name = name
    IN program[i].fn.ret_typ.name

\* the instructions ins[off+1 .. off+EmitCount(call)] are the lowering of the
\* call: the arguments' segments in order, then the one FunctionCall
RECURSIVE CallShape(_, _, _, _)
ArgShape(ins, off, a, v, locals) ==
    CASE a.k = "Int" -> v = I64(a.i)
      [] a.k = "Identifier" -> v = Identifier(locals[a.name].typ, a.name)
      [] a.k = "FuncCall" ->
            /\ CallShape(ins, off, a, locals)
            /\ v = LocalIdentifier(known_functions[a.f.name], ins[off + EmitCount(a)].id)
      [] a.k = "Binary" ->
            /\ ins[off + EmitCount(a)].op = "BinaryOperation"
            /\ v.e = "LocalIdentifier"
            /\ v.id = ins[off + EmitCount(a)].id
CallShape(ins, off, call, locals) ==
    LET inst == ins[off + EmitCount(call)]
    IN /\ inst.op = "FunctionCall"
       /\ inst.func_name = "@" \o call.f.name
       /\ inst.ret_type = known_functions[call.f.name]
       /\ known_functions[call.f.name] =
             (CASE DeclaredRet(call.f.name) = "void" -> TVoid
                [] DeclaredRet(call.f.name) = "int" -> TInt(64)
                [] DeclaredRet(call.f.name) = "bool" -> TInt(1))
       /\ Len(inst.args_expr) = Len(call.args)
       /\ \A i \in 1..Len(call.args) :
             ArgShape(ins, off + EmitCountAll(SubSeq(call.args, 1, i - 1)),
                      call.args[i], inst.args_expr[i], locals)
       /\ \A q \in (off + 1)..(off + EmitCount(call) - 1) :
             ins[q].op = "FunctionCall" =>
                 \E i \in 1..Len(call.args) :
                     q <= off + EmitCountAll(SubSeq(call.args, 1, i))
                     /\ q > off + EmitCountAll(SubSeq(call.args, 1, i - 1))

\* the lowered functions whose block body consists of call statements only
CallOnlyFns ==
    {i \in LoweredBlockFns :
        /\ StatementsOf(i) # <<>>
        /\ \A j \in 1..Len(StatementsOf(i)) :
              /\ StatementsOf(i)[j].k = "Expression"
              /\ StatementsOf(i)[j].expr.k = "FuncCall"
              /\ CallLike(StatementsOf(i)[j].expr)}

StatementExprs(i) == [j \in 1..Len(StatementsOf(i)) |-> StatementsOf(i)[j].expr]

\* C10: a call f(a1..an) lowers to the instructions of a1..an in argument
\* order followed by exactly one FunctionCall to `@f`, with the return type the
\* pre-pass registered for f and the lowered argument values in order, whether
\* f is declared before or after the caller; a call statement adds nothing else.
C10_CallLowering ==
    \A i \in CallOnlyFns :
        /\ Len(StreamOf(i)) = EmitCountAll(StatementExprs(i))
        /\ \A j \in 1..Len(StatementsOf(i)) :
              CallShape(StreamOf(i),
                        EmitCountAll(SubSeq(StatementExprs(i), 1, j - 1)),
                        StatementsOf(i)[j].expr,
                        functions["@" \o program[i].fn.name].body[1].variables)

\* main calls foo, declared after it, with two instruction-emitting arguments
C10_Witness ==
    /\ pc = "done"
    /\ \E i \in CallOnlyFns :
          /\ \E j \in (i + 1)..Len(program) :
                program[j].k = "Function" /\ program[j].fn.name = "foo"
          /\ StatementsOf(i)[1].expr.f.name = "foo"
          /\ Len(StatementsOf(i)[1].expr.args) = 2
          /\ StatementsOf(i)[1].expr.args[1].k = "FuncCall"
          /\ StatementsOf(i)[1].expr.args[2].k = "Binary"
          /\ Len(StreamOf(i)) = 3
          /\ StreamOf(i)[3].op = "FunctionCall"
          /\ NumberOf(StreamOf(i)[3]) = 3

(***************************************************************************)
(* Semantic types and the type environment (semantic/types.rs)             *)
(***************************************************************************)
SemType(n, ps) == [name |-> n, params |-> ps]
SemVoid == SemType("void", <<>>)
SemInt == SemType("int", <<>>)
SemBool == SemType("bool", <<>>)
SemString == SemType("string", <<>>)
SemList(t) == SemType("List", <<t>>)
SemFree == SemType("'a", <<>>)
SemFunction(ret) == SemType("->", <<ret>>)

\* results of the fallible operations: a type, or an environment and the
\* place of the failure
NoStmt == [k |-> "none"]
OkType(t) == [err |-> "Ok", typ |-> t]
ErrType(kind) == [err |-> kind, typ |-> SemVoid]
Site(stmt, last) == [stmt |-> stmt, last |-> last]
NoSite == Site(NoStmt, FALSE)
OkEnv(sc) == [err |-> "Ok", env |-> sc, site |-> NoSite]
FailEnv(kind, sc, site) == [err |-> kind, env |-> sc, site |-> site]

\* TypeEnv::new : the scope holding the built-in types
NewTypeEnv ==
    [variables |-> EmptyMap,
     types |-> {"void", "int", "f64", "bool", "string", "List"},
     in_class_scope |-> FALSE]

\* TypeEnv::with_parent : a scope chain, the innermost scope last
NewScope == [variables |-> EmptyMap, types |-> {}, in_class_scope |-> FALSE]
WithParent(sc) == Append(sc, NewScope)

ReplaceLast(sc, scope) == [sc EXCEPT ![Len(sc)] = scope]

InClassScope(sc) == ReplaceLast(sc, [Last(sc) EXCEPT !.in_class_scope = TRUE])

TypeKnown(name, sc) == \E i \in 1..Len(sc) : name \in sc[i].types

FirstError(rs) ==
    rs[CHOOSE i \in 1..Len(rs) : rs[i].err # "Ok" /\ \A j \in 1..(i - 1) : rs[j].err = "Ok"]

Generic(name, rs) ==
    IF \E i \in 1..Len(rs) : rs[i].err # "Ok" THEN FirstError(rs)
    ELSE OkType(SemType(name, [i \in 1..Len(rs) |-> rs[i].typ]))

\* TypeEnv::from
RECURSIVE From(_, _)
From(t, sc) ==
    IF ~TypeKnown(t.name, sc) THEN ErrType("UnknownType")
    ELSE Generic(t.name, [i \in 1..Len(t.generics) |-> From(t.generics[i], sc)])

\* TypeEnv::add_variable
AddVariable(sc, name, typ) ==
    IF name \in DOMAIN Last(sc).variables
    THEN FailEnv("NameRedefined", sc, NoSite)
    ELSE OkEnv(ReplaceLast(sc, [Last(sc) EXCEPT !.variables = Put(@, name, typ)]))

\* TypeEnv::add_type
AddType(sc, name) ==
    IF name \in Last(sc).types
    THEN FailEnv("NameRedefined", sc, NoSite)
    ELSE OkEnv(ReplaceLast(sc, [Last(sc) EXCEPT !.types = @ \cup {name}]))

\* the lookup of a variable through the chain, innermost scope first
RECURSIVE LookupVariable(_, _, _)
LookupVariable(sc, i, name) ==
    IF i = 0 THEN ErrType("NoVariable")
    ELSE IF name \in DOMAIN sc[i].variables THEN OkType(sc[i].variables[name])
    ELSE LookupVariable(sc, i - 1, name)

\* TypeEnv::unify
RECURSIVE Unify(_, _)
Unify(expected, actual) ==
    \/ expected = SemFree
    \/ actual = SemFree
    \/ /\ expected.name = actual.name
       /\ Len(expected.params) = Len(actual.params)
       /\ \A i \in 1..Len(expected.params) : Unify(expected.params[i], actual.params[i])

FunctionType(r) == IF r.err # "Ok" THEN r ELSE OkType(SemFunction(r.typ))

\* TypeEnv::new_function_type : the signature records the return type
NewFunctionType(f, sc) == FunctionType(From(f.ret_typ, sc))

CallType(r) ==
    IF r.err # "Ok" THEN r
    ELSE IF r.typ.name = "->" THEN OkType(r.typ.params[1])
    ELSE ErrType("TypeMismatch")

UnifyElem(r, t) ==
    IF t.err # "Ok" THEN t
    ELSE IF Unify(r.typ, t.typ) THEN r
    ELSE ErrType("TypeMismatch")

ListOf(r) == IF r.err # "Ok" THEN r ELSE OkType(SemList(r.typ))

\* TypeEnv::type_of_expr
RECURSIVE TypeOfExpr(_, _)
RECURSIVE ElemsType(_, _, _, _)
ElemsType(r, elems, i, sc) ==
    IF r.err # "Ok" \/ i > Len(elems) THEN r
    ELSE ElemsType(UnifyElem(r, TypeOfExpr(elems[i], sc)), elems, i + 1, sc)
TypeOfExpr(e, sc) ==
    CASE e.k = "Int" -> OkType(SemInt)
      [] e.k = "Bool" -> OkType(SemBool)
      [] e.k = "String" -> OkType(SemString)
      [] e.k = "List" ->
            IF e.elems = <<>> THEN OkType(SemList(SemFree))
            ELSE ListOf(ElemsType(TypeOfExpr(e.elems[1], sc), e.elems, 2, sc))
      [] e.k = "Identifier" -> LookupVariable(sc, Len(sc), e.name)
      [] e.k = "FuncCall" -> CallType(TypeOfExpr(e.f, sc))

(***************************************************************************)
(* The semantic checker (semantic/mod.rs)                                  *)
(***************************************************************************)
At(r, site) == IF r.err # "Ok" THEN [r EXCEPT !.site = site] ELSE r

\* `add_variable(.., name, <type>?)?` : the type argument is evaluated, and its
\* error returned, before add_variable runs
BindResolved(sc, name, r) ==
    IF r.err # "Ok" THEN FailEnv(r.err, sc, NoSite) ELSE AddVariable(sc, name, r.typ)

\* format!("{}::{}", c.name, method.name)
MemberKey(c, member) == c.name \o "::" \o member.fn.name

\* pass 1, one member of a class; the mutant registers no instance method
Pass1MemberStaticOnly(sc, c, member) ==
    IF member.k \in {"StaticMethod"}
    THEN BindResolved(sc, MemberKey(c, member), NewFunctionType(member.fn, sc))
    ELSE OkEnv(sc)
Pass1Member(sc, c, member) ==
    IF member.k \in {"StaticMethod", "Method"}
    THEN BindResolved(sc, MemberKey(c, member), NewFunctionType(member.fn, sc))
    ELSE OkEnv(sc)

RECURSIVE Pass1Members(_, _, _)
Pass1Members(r, c, i) ==
    IF r.err # "Ok" \/ i > Len(c.members) THEN r
    ELSE Pass1Members(Pass1Member(r.env, c, c.members[i]), c, i + 1)

\* pass 1 over one declaration: new_class, add_type, then the members
Pass1Step(top, sc) ==
    IF top.k = "Class" THEN Pass1Members(AddType(sc, top.name), top, 1)
    ELSE OkEnv(sc)

\* pass 2 over a Function; the mutant binds nothing
Pass2FunctionUnbound(f, sc) == OkEnv(sc)
Pass2Function(f, sc) == BindResolved(sc, f.name, NewFunctionType(f, sc))

\* pass 2 over one declaration
Pass2Step(top, sc) ==
    CASE top.k = "Variable" -> BindResolved(sc, top.name, From(top.typ, sc))
      [] top.k = "Function" -> Pass2Function(top.fn, sc)
      [] OTHER -> OkEnv(sc)

\* `let t = type_of_expr(e)?; unify(location, expected, &t)`
UnifyAt(sc, expected, r, site) ==
    IF r.err # "Ok" THEN FailEnv(r.err, sc, site)
    ELSE IF Unify(expected, r.typ) THEN OkEnv(sc)
    ELSE FailEnv("TypeMismatch", sc, site)

\* pass 3 over a Variable, once the initializer and the declared type are
\* evaluated (in that order); the mutant skips the unification
CheckVariableTypedNoUnify(sc, typ, declared) ==
    IF typ.err # "Ok" THEN FailEnv(typ.err, sc, NoSite)
    ELSE IF declared.err # "Ok" THEN FailEnv(declared.err, sc, NoSite)
    ELSE OkEnv(sc)
CheckVariableTyped(sc, typ, declared) ==
    IF typ.err # "Ok" THEN FailEnv(typ.err, sc, NoSite)
    ELSE IF declared.err # "Ok" THEN FailEnv(declared.err, sc, NoSite)
    ELSE IF Unify(declared.typ, typ.typ) THEN OkEnv(sc)
    ELSE FailEnv("TypeMismatch", sc, NoSite)

CheckVariable(v, sc) == CheckVariableTyped(sc, TypeOfExpr(v.expr, sc), From(v.typ, sc))

\* check_block, the branch of a block without statements; the mutant reports
\* the failed unification itself
EmptyBlockStmt == [k |-> "EmptyBlock"]
EmptyBlockMismatch(sc, return_type) ==
    IF Unify(return_type, SemVoid) THEN OkEnv(sc)
    ELSE FailEnv("TypeMismatch", sc, Site(EmptyBlockStmt, TRUE))
EmptyBlock(sc, return_type) ==
    IF Unify(return_type, SemVoid) THEN OkEnv(sc)
    ELSE FailEnv("DeadCodeAfterReturn", sc, Site(EmptyBlockStmt, TRUE))

\* check_block, the Return arm; the mutant unifies before it looks at the position
ReturnArmUnifyFirst(sc, typ, stmt, last, return_type) ==
    IF typ.err # "Ok" THEN FailEnv(typ.err, sc, Site(stmt, last))
    ELSE IF ~Unify(return_type, typ.typ) THEN FailEnv("TypeMismatch", sc, Site(stmt, last))
    ELSE IF ~last THEN FailEnv("DeadCodeAfterReturn", sc, Site(stmt, last))
    ELSE OkEnv(sc)
ReturnArm(sc, typ, stmt, last, return_type) ==
    IF typ.err # "Ok" THEN FailEnv(typ.err, sc, Site(stmt, last))
    ELSE IF ~last THEN FailEnv("DeadCodeAfterReturn", sc, Site(stmt, last))
    ELSE IF Unify(return_type, typ.typ) THEN OkEnv(sc)
    ELSE FailEnv("TypeMismatch", sc, Site(stmt, last))

TailVoidNever(r, stmt, last, return_type) == r

\* `if i == b.statements.len() - 1 { unify(location, return_type, &Void)? }`
TailVoid(r, stmt, last, return_type) ==
    IF r.err # "Ok" \/ ~last THEN r
    ELSE IF Unify(return_type, SemVoid) THEN r
    ELSE FailEnv("TypeMismatch", r.env, Site(stmt, last))

VariableArmBindFirst(sc, var_def_typ, var_typ, stmt, last, return_type) ==
    IF var_def_typ.err # "Ok" THEN FailEnv(var_def_typ.err, sc, Site(stmt, last))
    ELSE IF AddVariable(sc, stmt.name, var_def_typ.typ).err # "Ok"
    THEN At(AddVariable(sc, stmt.name, var_def_typ.typ), Site(stmt, last))
    ELSE IF TypeOfExpr(stmt.expr, AddVariable(sc, stmt.name, var_def_typ.typ).env).err # "Ok"
    THEN FailEnv(TypeOfExpr(stmt.expr, AddVariable(sc, stmt.name, var_def_typ.typ).env).err,
                 sc, Site(stmt, last))
    ELSE IF ~Unify(var_def_typ.typ,
                   TypeOfExpr(stmt.expr, AddVariable(sc, stmt.name, var_def_typ.typ).env).typ)
    THEN FailEnv("TypeMismatch", sc, Site(stmt, last))
    ELSE TailVoid(AddVariable(sc, stmt.name, var_def_typ.typ), stmt, last, return_type)

\* check_block, the Variable arm
VariableArm(sc, var_def_typ, var_typ, stmt, last, return_type) ==
    IF var_def_typ.err # "Ok" THEN FailEnv(var_def_typ.err, sc, Site(stmt, last))
    ELSE IF var_typ.err # "Ok" THEN FailEnv(var_typ.err, sc, Site(stmt, last))
    ELSE IF ~Unify(var_def_typ.typ, var_typ.typ)
    THEN FailEnv("TypeMismatch", sc, Site(stmt, last))
    ELSE TailVoid(At(AddVariable(sc, stmt.name, var_def_typ.typ), Site(stmt, last)),
                  stmt, last, return_type)

ExpressionArmNoTail(sc, stmt, last, return_type) ==
    UnifyAt(sc, SemVoid, TypeOfExpr(stmt.expr, sc), Site(stmt, last))

\* check_block, the Expression arm
ExpressionArm(sc, stmt, last, return_type) ==
    TailVoid(UnifyAt(sc, SemVoid, TypeOfExpr(stmt.expr, sc), Site(stmt, last)),
             stmt, last, return_type)

RECURSIVE CheckBlock(_, _, _)
RECURSIVE CheckStatements(_, _, _, _)
RECURSIVE CheckClauses(_, _, _, _, _)

ThenBlockScoped(r, block, return_type) ==
    IF r.err # "Ok" THEN r
    ELSE IF CheckBlock(WithParent(r.env), block, return_type).err = "Ok" THEN OkEnv(r.env)
    ELSE CheckBlock(WithParent(r.env), block, return_type)

\* `self.check_block(type_env, block, return_type)?` on the caller's own scope
ThenBlock(r, block, return_type) ==
    IF r.err # "Ok" THEN r ELSE CheckBlock(r.env, block, return_type)

\* check_block, the IfBlock arm: the loop over the clauses
CheckClauses(r, clauses, i, site, return_type) ==
    IF r.err # "Ok" \/ i > Len(clauses) THEN r
    ELSE CheckClauses(
             ThenBlock(UnifyAt(r.env, SemBool, TypeOfExpr(clauses[i].cond, r.env), site),
                       clauses[i].block, return_type),
             clauses, i + 1, site, return_type)

IfBlockArmNoElse(sc, stmt, last, return_type) ==
    CheckClauses(OkEnv(sc), stmt.clauses, 1, Site(stmt, last), return_type)

\* check_block, the IfBlock arm: the clauses, then the else-block
IfBlockArm(sc, stmt, last, return_type) ==
    ThenBlock(CheckClauses(OkEnv(sc), stmt.clauses, 1, Site(stmt, last), return_type),
              stmt.else_block, return_type)

CheckStatement(sc, stmt, last, return_type) ==
    CASE stmt.k = "Return" ->
            ReturnArm(sc,
                      IF stmt.opt = <<>> THEN OkType(SemVoid) ELSE TypeOfExpr(stmt.opt[1], sc),
                      stmt, last, return_type)
      [] stmt.k = "Variable" ->
            VariableArm(sc, From(stmt.typ, sc), TypeOfExpr(stmt.expr, sc),
                        stmt, last, return_type)
      [] stmt.k = "Expression" -> ExpressionArm(sc, stmt, last, return_type)
      [] stmt.k = "IfBlock" -> IfBlockArm(sc, stmt, last, return_type)

CheckStatements(r, stmts, i, return_type) ==
    IF r.err # "Ok" \/ i > Len(stmts) THEN r
    ELSE CheckStatements(CheckStatement(r.env, stmts[i], i = Len(stmts), return_type),
                         stmts, i + 1, return_type)

\* SemanticChecker::check_block
CheckBlock(sc, stmts, return_type) ==
    IF Len(stmts) = 0 THEN EmptyBlock(sc, return_type)
    ELSE CheckStatements(OkEnv(sc), stmts, 1, return_type)

\* check_function_body, the loop over the parameters
RECURSIVE BindParameters(_, _, _)
BindParameters(r, ps, i) ==
    IF r.err # "Ok" \/ i > Len(ps) THEN r
    ELSE BindParameters(BindResolved(r.env, ps[i].name, From(ps[i].typ, r.env)), ps, i + 1)

\* check_function_body, the match on the body
CheckBody(f, return_type, r) ==
    IF r.err # "Ok" THEN r
    ELSE IF f.body = <<>> THEN r
    ELSE IF f.body[1].k = "Expr"
    THEN UnifyAt(r.env, return_type, TypeOfExpr(f.body[1].expr, r.env), NoSite)
    ELSE CheckBlock(r.env, f.body[1].statements, return_type)

CheckSignature(f, return_type, sc) ==
    IF return_type.err # "Ok" THEN FailEnv(return_type.err, sc, NoSite)
    ELSE CheckBody(f, return_type.typ, BindParameters(OkEnv(sc), f.parameters, 1))

\* SemanticChecker::check_function_body: the return type is resolved in the
\* checker's own environment, the body in a child of `env`
CheckFunctionBody(f, self_env, env) ==
    CheckSignature(f, From(f.ret_typ, self_env), WithParent(env))

\* a callee's scope is dropped when it returns Ok
Scoped(sc, r) == IF r.err = "Ok" THEN OkEnv(sc) ELSE r

\* pass 3 over a Class: the fields, then the method bodies
RECURSIVE ClassFields(_, _, _)
ClassFields(r, members, i) ==
    IF r.err # "Ok" \/ i > Len(members) THEN r
    ELSE IF members[i].k = "Field"
    THEN ClassFields(BindResolved(r.env, members[i].name, From(members[i].typ, r.env)),
                     members, i + 1)
    ELSE ClassFields(r, members, i + 1)

RECURSIVE ClassMethods(_, _, _, _)
ClassMethods(r, members, i, self_env) ==
    IF r.err # "Ok" \/ i > Len(members) THEN r
    ELSE IF members[i].k \in {"StaticMethod", "Method"}
    THEN ClassMethods(Scoped(r.env, CheckFunctionBody(members[i].fn, self_env, r.env)),
                      members, i + 1, self_env)
    ELSE ClassMethods(r, members, i + 1, self_env)

EnterClassScope(r) == IF r.err # "Ok" THEN r ELSE OkEnv(InClassScope(r.env))

CheckClass(c, sc) ==
    ClassMethods(EnterClassScope(ClassFields(OkEnv(WithParent(sc)), c.members, 1)),
                 c.members, 1, sc)

\* pass 3 over a Trait: unimplemented!(); the mutant accepts the trait
TraitArmSilent(sc) == OkEnv(sc)
TraitArm(sc) == FailEnv("panic", sc, NoSite)

\* pass 3 over one declaration
Pass3Step(top, sc) ==
    CASE top.k = "Variable" -> CheckVariable(top, sc)
      [] top.k = "Function" -> Scoped(sc, CheckFunctionBody(top.fn, sc, sc))
      [] top.k = "Class" -> Scoped(sc, CheckClass(top, sc))
      [] top.k = "Trait" -> TraitArm(sc)

(***************************************************************************)
(* Input programs of the checker                                           *)
(***************************************************************************)
VarXStr == TopVar("x", PT("int"), EStr("str"))
VarXFoo == TopVar("x", PT("Foo"), EInt(1))
FnX == TopFn(Fn("x", <<>>, PT("void"), <<BodyBlock(<<>>)>>))
FnG == TopFn(Fn("g", <<Param("a", PT("int"))>>, PT("int"), <<BodyExpr(EId("a"))>>))
VarY == TopVar("y", PT("int"), ECall(EId("g"), <<EInt(2)>>))
ClassK ==
    TopClass("K", <<MField("v", PT("int")),
                    MMethod(Fn("m", <<>>, PT("int"), <<BodyExpr(EId("v"))>>)),
                    MStatic(Fn("s", <<>>, PT("void"), <<BodyBlock(<<>>)>>))>>)
ClassD == TopClass("D", <<MMethod(Fn("m", <<>>, PT("Foo"), <<>>))>>)
FnMk == TopFn(Fn("mk", <<>>, PT("K"), <<>>))
TraitT == TopTrait("T")

DeclPool == {GlobalX, VarXStr, VarXFoo, FnX, FnG, VarY, ClassK, ClassD, FnMk, TraitT}

\* declarations in every order
PoolPrograms == SeqsUpTo(DeclPool, MaxDecls)

FnH == TopFn(Fn("h", <<>>, PT("void"), <<>>))
CallH == SExpr(ECall(EId("h"), <<>>))
IfNoElse == SIf(<<Clause(EBool(TRUE), <<SReturn(<<EInt(1)>>)>>)>>, <<>>)
IfElse ==
    SIf(<<Clause(EBool(TRUE), <<SReturn(<<EInt(1)>>)>>)>>, <<SReturn(<<EInt(2)>>)>>)
IfEmpty == SIf(<<Clause(EBool(TRUE), <<>>)>>, <<>>)
IfEarly ==
    SIf(<<Clause(EBool(TRUE), <<SReturn(<<EStr("s")>>), CallH>>)>>, <<SReturn(<<EInt(2)>>)>>)
IfIntCond == SIf(<<Clause(EInt(1), <<>>)>>, <<>>)

CkStmts ==
    {SReturn(<<>>), SReturn(<<EInt(1)>>), SReturn(<<EStr("s")>>), SReturn(<<EId("q")>>),
     CallH, SVar("y", PT("int"), EInt(1)),
     IfNoElse, IfElse, IfEmpty, IfEarly, IfIntCond}
CkBlocks == SeqsUpTo(CkStmts, MaxInner)

FnF(rt, b) == TopFn(Fn("f", <<Param("a", PT("int"))>>, PT(rt), <<BodyBlock(b)>>))

\* one function over every block, declared before and after the function it calls
BodyPrograms ==
    {<<FnH, FnF(rt, b)>> : rt \in {"void", "int"}, b \in CkBlocks}
    \cup {<<FnF(rt, b), FnH>> : rt \in {"void", "int"}, b \in CkBlocks}

LiteralInits ==
    {EInt(1), EStr("s")} \cup {EList(es) : es \in SeqsUpTo({EInt(1), EStr("s")}, MaxArgs)}
DeclaredTypes ==
    {PT("int"), PT("string"), PTG("List", <<PT("int")>>), PTG("List", <<PT("string")>>),
     PTG("List", <<PT("Foo")>>)}

\* one top-level variable over every declared type and literal initializer
VariablePrograms == {<<TopVar("l", t, e)>> : t \in DeclaredTypes, e \in LiteralInits}

\* class members: bodies, fields and parameters that fail in pass 3
ClassM(b) ==
    TopClass("M", <<MField("v", PT("int")),
                    MMethod(Fn("get", <<>>, PT("int"), <<BodyBlock(b)>>))>>)
ClassPrograms ==
    {<<ClassM(b)>> : b \in {<<SReturn(<<EId("v")>>)>>,
                            <<SReturn(<<EStr("s")>>), SReturn(<<EId("v")>>)>>,
                            <<IfNoElse>>, <<>>}}
    \cup {<<TopClass("N", <<MField("v", PT("Foo"))>>)>>,
          <<TopClass("N", <<MMethod(Fn("m", <<>>, PT("int"), <<>>)),
                            MStatic(Fn("m", <<>>, PT("int"), <<>>))>>)>>,
          <<TopFn(Fn("p", <<Param("a", PT("int")), Param("a", PT("int"))>>,
                     PT("void"), <<>>))>>,
          <<TopFn(Fn("p", <<Param("a", PT("Foo"))>>, PT("void"), <<>>))>>,
          <<TopFn(Fn("p", <<>>, PT("K"), <<BodyExpr(ECall(EId("mk"), <<>>))>>)),
            FnMk, ClassK>>}

\* blocks with locals, else-if chains, nested ifs and calls of an int function
TrueLit == EBool(TRUE)
VarY1 == SVar("y", PT("int"), EInt(1))
CallG == SExpr(ECall(EId("g"), <<EInt(1)>>))
IfDeclares == SIf(<<Clause(TrueLit, <<VarY1>>)>>, <<>>)
ScopeBlocks ==
    {<<VarY1, SReturn(<<EId("y")>>)>>,
     <<VarY1>>,
     <<SVar("y", PT("int"), EId("y"))>>,
     <<SVar("y", PT("int"), EStr("s")), SReturn(<<EId("y")>>)>>,
     <<SVar("y", PT("Foo"), EInt(1))>>,
     <<SVar("a", PT("int"), EInt(1))>>,
     <<SVar("x", PT("string"), EStr("s")), SVar("z", PT("string"), EId("x"))>>,
     <<SVar("h", PT("int"), EInt(1)), SReturn(<<EId("h")>>)>>,
     <<VarY1, VarY1>>,
     <<IfDeclares, SVar("z", PT("int"), EId("y"))>>,
     <<IfDeclares, VarY1>>,
     <<IfDeclares, SReturn(<<EId("y")>>)>>,
     <<SIf(<<Clause(TrueLit, <<VarY1, SReturn(<<EId("y")>>)>>)>>, <<SReturn(<<EId("y")>>)>>)>>,
     <<SIf(<<Clause(TrueLit, <<SVar("b", PT("bool"), TrueLit)>>), Clause(EId("b"), <<>>)>>,
           <<>>)>>,
     <<SIf(<<Clause(TrueLit, <<VarY1>>)>>, <<SVar("y", PT("int"), EInt(2))>>)>>,
     <<SIf(<<Clause(TrueLit, <<VarY1>>), Clause(TrueLit, <<VarY1>>)>>, <<>>)>>,
     <<SIf(<<Clause(TrueLit, <<SReturn(<<EInt(1)>>)>>),
             Clause(EId("a"), <<SReturn(<<EInt(2)>>)>>)>>, <<SReturn(<<EInt(3)>>)>>)>>,
     <<SIf(<<Clause(TrueLit, <<SReturn(<<EInt(1)>>)>>),
             Clause(EBool(FALSE), <<SReturn(<<EInt(2)>>)>>)>>, <<SReturn(<<EInt(3)>>)>>)>>,
     <<SIf(<<Clause(TrueLit, <<SReturn(<<EInt(1)>>)>>),
             Clause(EBool(FALSE), <<CallH>>)>>, <<SReturn(<<EInt(3)>>)>>)>>,
     <<SIf(<<Clause(TrueLit, <<CallH>>), Clause(EInt(1), <<CallH>>)>>, <<CallH>>)>>,
     <<SIf(<<Clause(EId("q"), <<>>)>>, <<>>)>>,
     <<SIf(<<Clause(TrueLit, <<IfElse>>)>>, <<SReturn(<<EInt(3)>>)>>)>>,
     <<SIf(<<Clause(TrueLit, <<IfNoElse>>)>>, <<SReturn(<<EInt(3)>>)>>)>>,
     <<SIf(<<Clause(TrueLit, <<IfElse, CallH>>)>>, <<IfElse>>)>>,
     <<SIf(<<Clause(TrueLit, <<CallH>>)>>, <<SIf(<<Clause(TrueLit, <<>>)>>, <<CallH>>)>>)>>,
     <<IfElse, SReturn(<<EInt(1)>>)>>,
     <<IfElse, SVar("z", PT("int"), EInt(1)), SReturn(<<EId("z")>>)>>,
     <<CallG>>,
     <<CallG, SReturn(<<EInt(1)>>)>>,
     <<CallH, CallH>>,
     <<CallH, SReturn(<<EInt(1)>>)>>,
     <<SExpr(ECall(EId("q"), <<>>))>>,
     <<SExpr(ECall(EId("a"), <<>>))>>}
VarA == TopVar("a", PT("string"), EStr("s"))
ScopePrograms ==
    {<<GlobalX, FnH, FnG, FnF(rt, b)>> : rt \in {"void", "int"}, b \in ScopeBlocks}
    \cup {<<VarA, FnF("int", b)>> :
              b \in {<<SReturn(<<EId("a")>>)>>, <<SVar("a", PT("int"), EInt(1))>>}}

CheckPrograms ==
    PoolPrograms \cup BodyPrograms \cup VariablePrograms \cup ClassPrograms \cup ScopePrograms

(***************************************************************************)
(* check_program as a state machine: one step per declaration and pass     *)
(***************************************************************************)
CheckInit ==
    /\ program \in CheckPrograms
    /\ pc = "check"
    /\ idx = 1
    /\ known_functions = EmptyMap
    /\ known_variables = EmptyMap
    /\ types = EmptyMap
    /\ functions = EmptyMap
    /\ variables = <<>>
    /\ cur = [instructions |-> <<>>, variables |-> EmptyMap]
    /\ counter = 0
    /\ pos = 0
    /\ cells = <<>>
    /\ ck_pass = 1
    /\ ck_idx = 1
    /\ type_env = NewTypeEnv
    /\ result = "running"
    /\ ck_site = [stmt |-> NoStmt, last |-> FALSE, env |-> <<>>]
    /\ IdleTypes

\* the `?` after every fallible step of check_program: an error is returned at
\* once; the mutant drops it and goes on
PropagateSwallow(o) ==
    /\ type_env' = IF o.err = "Ok" THEN o.env[1] ELSE type_env
    /\ ck_idx' = ck_idx + 1
    /\ UNCHANGED <<result, ck_site>>
Propagate(o) ==
    IF o.err = "Ok"
    THEN /\ type_env' = o.env[1]
         /\ ck_idx' = ck_idx + 1
         /\ UNCHANGED <<result, ck_site>>
    ELSE /\ result' = o.err
         /\ ck_site' = [stmt |-> o.site.stmt, last |-> o.site.last, env |-> o.env]
         /\ UNCHANGED <<type_env, ck_idx>>

\* one iteration of the first loop
Pass1 ==
    /\ result = "running" /\ ck_pass = 1 /\ ck_idx <= Len(program)
    /\ Propagate(Pass1Step(program[ck_idx], <<type_env>>))
    /\ UNCHANGED <<program, gen_vars, ty_vars, ck_pass>>

\* one iteration of the second loop
Pass2 ==
    /\ result = "running" /\ ck_pass = 2 /\ ck_idx <= Len(program)
    /\ Propagate(Pass2Step(program[ck_idx], <<type_env>>))
    /\ UNCHANGED <<program, gen_vars, ty_vars, ck_pass>>

\* one iteration of the third loop
Pass3 ==
    /\ result = "running" /\ ck_pass = 3 /\ ck_idx <= Len(program)
    /\ Propagate(Pass3Step(program[ck_idx], <<type_env>>))
    /\ UNCHANGED <<program, gen_vars, ty_vars, ck_pass>>

\* a loop is exhausted: the next loop starts at the first declaration
NextPass ==
    /\ result = "running" /\ ck_pass \in {1, 2} /\ ck_idx > Len(program)
    /\ ck_pass' = ck_pass + 1
    /\ ck_idx' = 1
    /\ UNCHANGED <<program, gen_vars, ty_vars, type_env, result, ck_site>>

\* the last loop is exhausted: Ok(())
ReturnOk ==
    /\ result = "running" /\ ck_pass = 3 /\ ck_idx > Len(program)
    /\ result' = "Ok"
    /\ UNCHANGED <<program, gen_vars, ty_vars, ck_pass, ck_idx, type_env, ck_site>>

CheckNext ==
    \/ Pass1
    \/ Pass2
    \/ Pass3
    \/ NextPass
    \/ ReturnOk

CheckSpec == CheckInit /\ [][CheckNext]_vars

(***************************************************************************)
(* Properties of the checker (checked under CheckSpec)                     *)
(***************************************************************************)
Finished == result \notin {"running", "idle"}
Failed == Finished /\ result # "Ok"

\* declaration i is behind the checker in pass 3
Passed3(i) == ck_pass = 3 /\ (ck_idx > i \/ result = "Ok")
FailedAt3(i) == ck_pass = 3 /\ ck_idx = i /\ Failed

\* the declarations that pass 2 binds, and the name each binds
Binds(i) == program[i].k \in {"Variable", "Function"}
BoundName(i) == IF program[i].k = "Variable" THEN program[i].name ELSE program[i].fn.name
DeclaredType(i) == IF program[i].k = "Variable" THEN program[i].typ ELSE program[i].fn.ret_typ

Rebinds(j) ==
    Binds(j) /\ \E i \in 1..(j - 1) : Binds(i) /\ BoundName(i) = BoundName(j)
HasDuplicate == \E j \in 1..Len(program) : Rebinds(j)
DupIndex == CHOOSE j \in 1..Len(program) : Rebinds(j) /\ \A i \in 1..(j - 1) : ~Rebinds(i)

ClassNames == {program[i].name : i \in {j \in 1..Len(program) : program[j].k = "Class"}}

\* a written type whose names are built in or declared as a class of the program
RECURSIVE Resolvable(_)
Resolvable(t) ==
    /\ t.name \in {"void", "int", "f64", "bool", "string", "List"} \cup ClassNames
    /\ \A i \in 1..Len(t.generics) : Resolvable(t.generics[i])

\* C3 as stated: two top-level declarations of one name always end in
\* NameRedefined
C3_Original == (Finished /\ HasDuplicate) => result = "NameRedefined"

\* C3: a program with two top-level declarations (variables, functions, or one
\* of each) of one name is never accepted, and it is rejected with
\* NameRedefined, at the second of them, when pass 1 succeeds and the declared
\* type (return type) of every top-level variable (function) up to and
\* including that declaration resolves.
C3_NameRedefined ==
    (Finished /\ HasDuplicate) =>
        /\ result # "Ok"
        /\ (ck_pass >= 2 /\ \A i \in 1..DupIndex : Binds(i) => Resolvable(DeclaredType(i)))
              => (result = "NameRedefined" /\ ck_pass = 2 /\ ck_idx = DupIndex)

\* a function declared under the name of an earlier variable
C3_Witness ==
    /\ result = "NameRedefined"
    /\ ck_pass = 2
    /\ program[ck_idx].k = "Function"
    /\ \E i \in 1..(ck_idx - 1) :
          program[i].k = "Variable" /\ program[i].name = program[ck_idx].fn.name

\* ---- C4 ----
RECURSIVE HasEarlyReturn(_)
RECURSIVE ClausesHaveEarlyReturn(_)
ClausesHaveEarlyReturn(clauses) ==
    clauses # <<>> /\ (HasEarlyReturn(Head(clauses).block)
                       \/ ClausesHaveEarlyReturn(Tail(clauses)))
HasEarlyReturn(block) ==
    \/ \E p \in 1..(Len(block) - 1) : block[p].k = "Return"
    \/ \E p \in 1..Len(block) :
          /\ block[p].k = "IfBlock"
          /\ (ClausesHaveEarlyReturn(block[p].clauses) \/ HasEarlyReturn(block[p].else_block))

\* the functions of the program: top-level ones and class members
FunctionsOf(top) ==
    CASE top.k = "Function" -> {top.fn}
      [] top.k = "Class" ->
            {top.members[i].fn :
                i \in {j \in 1..Len(top.members) :
                          top.members[j].k \in {"Method", "StaticMethod"}}}
      [] OTHER -> {}
AllFunctions == UNION {FunctionsOf(program[i]) : i \in 1..Len(program)}
BlockBodied(f) == f.body # <<>> /\ f.body[1].k = "Block"

ReturnTyped(stmt, sc) ==
    stmt.opt = <<>> \/ TypeOfExpr(stmt.opt[1], sc).err = "Ok"

\* C4: a program with a return statement that is not the last statement of its
\* block (body, clause block or else-block) is never accepted; when the check
\* stops at such a return whose expression can be typed, the error is
\* DeadCodeAfterReturn, whether or not the returned type fits.
C4_ReturnNotLast ==
    /\ (Finished /\ \E f \in AllFunctions :
                        BlockBodied(f) /\ HasEarlyReturn(f.body[1].statements))
          => result # "Ok"
    /\ (Failed /\ ck_site.stmt.k = "Return" /\ ~ck_site.last
               /\ ReturnTyped(ck_site.stmt, ck_site.env))
          => result = "DeadCodeAfterReturn"

\* `return "s"; h();` in a clause block of a function returning int
C4_Witness ==
    /\ result = "DeadCodeAfterReturn"
    /\ ck_pass = 3
    /\ program[ck_idx].k = "Function"
    /\ program[ck_idx].fn.ret_typ.name = "int"
    /\ BlockBodied(program[ck_idx].fn)
    /\ program[ck_idx].fn.body[1].statements = <<IfEarly>>
    /\ ck_site.stmt = SReturn(<<EStr("s")>>)
    /\ ~ck_site.last

\* ---- C5 ----
RECURSIVE HasEmptyBlock(_)
HasEmptyBlock(block) ==
    \E p \in 1..Len(block) :
        /\ block[p].k = "IfBlock"
        /\ \/ block[p].else_block = <<>>
           \/ HasEmptyBlock(block[p].else_block)
           \/ \E c \in 1..Len(block[p].clauses) :
                 \/ block[p].clauses[c].block = <<>>
                 \/ HasEmptyBlock(block[p].clauses[c].block)

PlainSignature(f) ==
    /\ \A i \in 1..Len(f.parameters) : Resolvable(f.parameters[i].typ)
    /\ \A i, j \in 1..Len(f.parameters) :
          f.parameters[i].name = f.parameters[j].name => i = j

\* C5: an empty block is accepted iff the return type is Void and is otherwise
\* rejected with DeadCodeAfterReturn; so the empty clause block and the empty
\* else-block of an if without else are rejected in a non-Void function.
C5_EmptyBlock ==
    /\ (Failed /\ ck_site.stmt.k = "EmptyBlock") => result = "DeadCodeAfterReturn"
    /\ \A i \in 1..Len(program) :
          (program[i].k = "Function" /\ BlockBodied(program[i].fn)
           /\ PlainSignature(program[i].fn)) =>
              /\ program[i].fn.body[1].statements = <<>> =>
                    /\ FailedAt3(i) =>
                          (program[i].fn.ret_typ.name # "void"
                           /\ result = "DeadCodeAfterReturn")
                    /\ Passed3(i) => program[i].fn.ret_typ.name = "void"
              /\ (Passed3(i) /\ program[i].fn.ret_typ.name # "void")
                    => ~HasEmptyBlock(program[i].fn.body[1].statements)

\* `if true { return 1; }` without else as the body of a function returning int
C5_Witness ==
    /\ result = "DeadCodeAfterReturn"
    /\ ck_pass = 3
    /\ program[ck_idx].k = "Function"
    /\ program[ck_idx].fn.ret_typ.name = "int"
    /\ BlockBodied(program[ck_idx].fn)
    /\ program[ck_idx].fn.body[1].statements = <<IfNoElse>>
    /\ ck_site.stmt.k = "EmptyBlock"

\* ---- C6 ----
RECURSIVE IsLiteral(_)
IsLiteral(e) ==
    \/ e.k \in {"Int", "String", "Bool"}
    \/ e.k = "List" /\ \A i \in 1..Len(e.elems) : IsLiteral(e.elems[i])

\* the literal is of the written type
RECURSIVE Fits(_, _)
Fits(e, t) ==
    CASE e.k = "Int" -> t = PT("int")
      [] e.k = "String" -> t = PT("string")
      [] e.k = "Bool" -> t = PT("bool")
      [] e.k = "List" ->
            /\ t.name = "List"
            /\ Len(t.generics) = 1
            /\ \A i \in 1..Len(e.elems) : Fits(e.elems[i], t.generics[1])

\* C6: pass 3 accepts a top-level variable `x: T = e` with a literal
\* initializer iff e is of type T, and rejects it with TypeMismatch otherwise:
\* a string for int is rejected, a list literal is accepted for List[T] iff
\* every element is a T, the empty list literal for every List[T].
C6_VariableUnify ==
    \A i \in 1..Len(program) :
        (program[i].k = "Variable" /\ IsLiteral(program[i].expr)) =>
            /\ FailedAt3(i) =>
                  (~Fits(program[i].expr, program[i].typ) /\ result = "TypeMismatch")
            /\ Passed3(i) => Fits(program[i].expr, program[i].typ)

\* `l: List[string] = [];` is accepted
C6_Witness ==
    /\ result = "Ok"
    /\ Len(program) = 1
    /\ program[1].k = "Variable"
    /\ program[1].typ = PTG("List", <<PT("string")>>)
    /\ program[1].expr = EList(<<>>)

\* ---- C7 ----
HasTrait == \E i \in 1..Len(program) : program[i].k = "Trait"

\* a top-level variable whose literal initializer is not of the declared type
LiteralMismatch(i) ==
    /\ program[i].k = "Variable"
    /\ IsLiteral(program[i].expr)
    /\ ~Fits(program[i].expr, program[i].typ)

\* failures that can be read off the program text
StaticFailure ==
    \/ HasDuplicate
    \/ HasTrait
    \/ \E i \in 1..Len(program) : Binds(i) /\ ~Resolvable(DeclaredType(i))
    \/ \E i \in 1..Len(program) : LiteralMismatch(i)
    \/ \E f \in AllFunctions : BlockBodied(f) /\ HasEarlyReturn(f.body[1].statements)

\* the steps are taken in execution order, one declaration at a time
InOrder ==
    \/ /\ ck_idx <= Len(program)
       /\ ck_pass' = ck_pass /\ ck_idx' = ck_idx + 1 /\ result' = "running"
    \/ /\ ck_idx = Len(program) + 1
       /\ ck_pass' = ck_pass + 1 /\ ck_idx' = 1 /\ result' = "running"
    \/ /\ ck_pass' = ck_pass /\ ck_idx' = ck_idx /\ result' # "running"

C7_Step ==
    /\ result = "running"
    /\ InOrder
    /\ result' = "Ok" => (ck_pass = 3 /\ ck_idx = Len(program) + 1 /\ ~StaticFailure)
    /\ (Failed' /\ ck_pass' = 3) =>
          /\ ~HasDuplicate
          /\ \A i \in 1..Len(program) : Binds(i) => Resolvable(DeclaredType(i))
          /\ \A i \in 1..(ck_idx - 1) : ~LiteralMismatch(i) /\ program[i].k # "Trait"
    /\ (Failed' /\ ck_pass' >= 2 /\ HasDuplicate /\ (\E i \in 1..DupIndex : LiteralMismatch(i))
        /\ \A i \in 1..DupIndex : Binds(i) => Resolvable(DeclaredType(i)))
          => (result' = "NameRedefined" /\ ck_pass' = 2)

\* C7: check_program takes its steps in execution order (pass 1, pass 2, pass 3,
\* each in source order), stops at the first failing step and returns its
\* error: no step follows a returned result, a failure of pass 3 is returned
\* only when pass 2 had none, a pass-2 NameRedefined wins over the TypeMismatch
\* of an earlier declaration, and Ok is returned only at the end with no failure.
C7_FirstFailure == [][C7_Step]_vars

\* NameRedefined is returned although an earlier declaration has a mismatch
C7_Witness ==
    /\ result = "NameRedefined"
    /\ ck_pass = 2
    /\ \E i \in 1..(ck_idx - 1) : LiteralMismatch(i)

\* ---- C8 ----
\* C8: a program with a Trait declaration is never accepted: pass 3 never moves
\* past a trait, reaching one aborts, and every earlier outcome is an error.
C8_TraitNeverOk ==
    HasTrait =>
        /\ result # "Ok"
        /\ ck_pass = 3 => \A i \in 1..(ck_idx - 1) : program[i].k # "Trait"
        /\ (Finished /\ ck_pass = 3 /\ program[ck_idx].k = "Trait") => result = "panic"

\* pass 3 reached a trait after an accepted declaration
C8_Witness ==
    /\ result = "panic"
    /\ ck_pass = 3
    /\ ck_idx > 1
    /\ program[ck_idx].k = "Trait"

\* ---- C9 ----
MemberKeys(top) ==
    {MemberKey(top, top.members[i]) :
        i \in {j \in 1..Len(top.members) : top.members[j].k \in {"Method", "StaticMethod"}}}

ClassesBound ==
    \A i \in 1..Len(program) :
        program[i].k = "Class" =>
            /\ program[i].name \in type_env.types
            /\ MemberKeys(program[i]) \subseteq DOMAIN type_env.variables

TopLevelBound ==
    \A i \in 1..Len(program) :
        Binds(i) =>
            /\ BoundName(i) \in DOMAIN type_env.variables
            /\ program[i].k = "Function" =>
                  type_env.variables[BoundName(i)].name = "->"

Declares(top) == \E i \in 1..Len(program) : program[i] = top

\* C9: the passes run in order over the whole list: in pass 2 every class type
\* and member signature is bound, in pass 3 also every top-level variable and
\* function, so the use of a class or top-level name declared later in the
\* file resolves (in a signature in pass 2, in an initializer or body in pass 3).
C9_PassOrder ==
    /\ ck_pass \in {2, 3} => ClassesBound
    /\ ck_pass = 3 => TopLevelBound
    /\ (Failed /\ ck_pass = 2 /\ program[ck_idx] = FnMk /\ Declares(ClassK))
          => result # "UnknownType"
    /\ (Failed /\ ck_pass = 3 /\ program[ck_idx] = VarY /\ Declares(FnG))
          => result # "NoVariable"

\* a body calls a function declared later whose signature names a class
\* declared later still, and the program is accepted
C9_Witness ==
    /\ result = "Ok"
    /\ Len(program) = 3
    /\ program[1].k = "Function"
    /\ program[1].fn.body = <<BodyExpr(ECall(EId("mk"), <<>>))>>
    /\ program[2] = FnMk
    /\ program[3] = ClassK

(***************************************************************************)
(* C11: the three body shapes of Function::from_ast                        *)
(***************************************************************************)
\* the number of instructions Body::expr_from_ast emits for an expression
RECURSIVE ExprSize(_)
RECURSIVE InitsSize(_, _, _)
RECURSIVE ArgsSize(_)
ExprSize(e) ==
    CASE e.k = "String" -> 2
      [] e.k = "ClassConstruction" -> 2 + InitsSize(e.inits, types[e.class].fields, 1)
      [] e.k = "MemberAccess" -> ExprSize(e.from) + 2
      [] e.k = "Binary" -> ExprSize(e.lhs) + ExprSize(e.rhs) + 1
      [] e.k = "FuncCall" -> ArgsSize(e.args) + 1
      [] OTHER -> 0
InitsSize(inits, fields, i) ==
    IF i > Len(fields) THEN 0
    ELSE ExprSize(inits[fields[i].name]) + 2 + InitsSize(inits, fields, i + 1)
ArgsSize(es) ==
    IF es = <<>> THEN 0 ELSE ExprSize(Head(es)) + ArgsSize(Tail(es))

\* the declarations of the program that are lowered into Module.functions
LoweredFns ==
    {i \in 1..Len(program) :
        /\ program[i].k = "Function"
        /\ ("@" \o program[i].fn.name) \in DOMAIN functions}

LoweredFn(i) == functions["@" \o program[i].fn.name]

\* the parameters of the lowered function are those of the declaration, in
\* declaration order, each with its lowered type
ParametersKept(i) ==
    /\ Len(LoweredFn(i).parameters) = Len(program[i].fn.parameters)
    /\ \A j \in 1..Len(program[i].fn.parameters) :
          /\ LoweredFn(i).parameters[j].name = program[i].fn.parameters[j].name
          /\ LoweredFn(i).parameters[j].typ
                = TypeFromAst(program[i].fn.parameters[j].typ, types)

\* the stream is the instructions of the expression, then one Return of a value
ExpressionBodyShape(ins, e) ==
    /\ Len(ins) = ExprSize(e) + 1
    /\ ins[Len(ins)].op = "Return"
    /\ ins[Len(ins)].value # <<>>
    /\ \A q \in 1..(Len(ins) - 1) : ins[q].op # "Return"
    /\ e.k \in {"String", "MemberAccess", "Binary", "FuncCall"}
          => /\ ins[Len(ins)].value[1].e = "LocalIdentifier"
             /\ ins[Len(ins)].value[1].id = ins[Len(ins) - 1].id
    /\ e.k = "ClassConstruction"
          => /\ ins[2].op = "BitCast"
             /\ ins[Len(ins)].value[1] = LocalIdentifier(types[e.class], ins[2].id)
    /\ e.k = "Int" => ins[Len(ins)].value[1] = I64(e.i)

\* C11: a declaration without body lowers to a Function whose body is None and
\* whose parameters are kept in declaration order with lowered types; an
\* expression body lowers to the instructions of the expression followed by
\* exactly one Return of its value, as the last instruction; an empty block
\* lowers to an empty instruction stream.
C11_BodyShapes ==
    \A i \in LoweredFns :
        /\ ParametersKept(i)
        /\ program[i].fn.body = <<>> <=> LoweredFn(i).body = <<>>
        /\ program[i].fn.body # <<>> /\ program[i].fn.body[1].k = "Expr"
              => ExpressionBodyShape(StreamOf(i), program[i].fn.body[1].expr)
        /\ program[i].fn.body # <<>> /\ program[i].fn.body[1].k = "Block"
              /\ program[i].fn.body[1].statements = <<>>
              => StreamOf(i) = <<>>

\* a lowered program with the declaration add(x: int, y: bool): int;, the empty
\* block of foo and an expression body of main that emits instructions
C11_Witness ==
    /\ pc = "done"
    /\ "@add" \in DOMAIN functions /\ "@foo" \in DOMAIN functions
    /\ "@main" \in DOMAIN functions
    /\ functions["@add"].body = <<>>
    /\ Len(functions["@add"].parameters) = 2
    /\ functions["@add"].parameters[1] = [name |-> "x", typ |-> TInt(64)]
    /\ functions["@add"].parameters[2] = [name |-> "y", typ |-> TInt(1)]
    /\ functions["@foo"].body # <<>>
    /\ functions["@foo"].body[1].instructions = <<>>
    /\ functions["@main"].body # <<>>
    /\ Len(functions["@main"].body[1].instructions) > 3
    /\ \E i \in 1..Len(program) :
          /\ program[i].k = "Function" /\ program[i].fn.name = "main"
          /\ program[i].fn.body # <<>>
          /\ program[i].fn.body[1].k = "Expr"

(***************************************************************************)
(* C12: mangled symbols of definitions and of calls                        *)
(***************************************************************************)
ClassDecls == {i \in 1..Len(program) : program[i].k = "Class"}
FunctionDecls == {i \in 1..Len(program) : program[i].k = "Function"}

\* the source names `C::m` of the methods of the program, as
\* parse_access_identifier reads them, with the symbol of their definition
MethodSymbols ==
    UNION {{[source |-> program[i].name \o "::" \o MethodMembers(program[i].members)[j].fn.name,
             symbol |-> "@" \o MethodName(program[i].name,
                                          MethodMembers(program[i].members)[j].fn.name)] :
              j \in 1..Len(MethodMembers(program[i].members))} : i \in ClassDecls}

FunctionSymbols ==
    {[source |-> program[i].fn.name, symbol |-> "@" \o program[i].fn.name] :
        i \in FunctionDecls}

\* every lowered definition is named by the rule, and by nothing else
DefinitionSymbols ==
    /\ \A n \in DOMAIN functions :
          /\ functions[n].name = n
          /\ n \in {s.symbol : s \in FunctionSymbols \cup MethodSymbols}
    /\ pc = "done" =>
          \A s \in FunctionSymbols \cup MethodSymbols : s.symbol \in DOMAIN functions

\* main is an expression body: declaration i, its call, and whether
\* Body::from_ast has run on it
CallBodied(i) ==
    /\ program[i].k = "Function"
    /\ program[i].fn.body # <<>>
    /\ program[i].fn.body[1].k = "Expr"
    /\ program[i].fn.body[1].expr.k = "FuncCall"
    /\ program[i].fn.body[1].expr.f.k = "Identifier"

StringBodied(i) ==
    /\ program[i].k = "Function"
    /\ program[i].fn.body # <<>>
    /\ program[i].fn.body[1].k = "Expr"
    /\ program[i].fn.body[1].expr.k = "String"

PrepassDone ==
    \A j \in FunctionDecls : program[j].fn.name \in DOMAIN known_functions

BodyBuiltFor(i) ==
    \/ i \in LoweredFns
    \/ PrepassDone /\ pc \in {"number", "abort"} /\ idx = i

BuiltStream(i) == IF i \in LoweredFns THEN StreamOf(i) ELSE cur.instructions

\* the string constructor is called as @"string::new", the name of its definition
StringConstructorSymbol ==
    \A i \in 1..Len(program) :
        StringBodied(i) /\ BodyBuiltFor(i) /\ pc # "abort"
            => /\ BuiltStream(i)[2].op = "FunctionCall"
               /\ BuiltStream(i)[2].func_name = "@\"string::new\""
               /\ \A s \in MethodSymbols :
                     s.source = "string::new" => s.symbol = BuiltStream(i)[2].func_name

\* a call to the function or class method `callee` carries the symbol of the
\* definition of `callee`
CallCarriesSymbol(i, s) ==
    \E q \in 1..Len(BuiltStream(i)) :
        /\ BuiltStream(i)[q].op = "FunctionCall"
        /\ BuiltStream(i)[q].func_name = s.symbol

CallSymbols ==
    \A i \in 1..Len(program) :
        CallBodied(i) /\ BodyBuiltFor(i)
            => \A s \in FunctionSymbols \cup MethodSymbols :
                  s.source = program[i].fn.body[1].expr.f.name => CallCarriesSymbol(i, s)

\* the same, for calls to top-level functions only
FunctionCallSymbols ==
    \A i \in 1..Len(program) :
        CallBodied(i) /\ BodyBuiltFor(i)
            => \A s \in FunctionSymbols :
                  s.source = program[i].fn.body[1].expr.f.name => CallCarriesSymbol(i, s)

\* C12: every symbol is mangled by one rule: a top-level f is `@f`, a method m
\* of class C is `@"C::m"`, the string constructor is `@"string::new"`, and a
\* FunctionCall to a function or class method carries the symbol under which
\* the definition of that callee is named.
C12_MangledSymbols ==
    /\ DefinitionSymbols
    /\ StringConstructorSymbol
    /\ CallSymbols

\* lowering stopped in the body of main, which calls the static method P::make
\* whose definition is already lowered as @"P::make"
C12_Witness ==
    /\ pc = "abort"
    /\ "@\"P::make\"" \in DOMAIN functions
    /\ idx \in 1..Len(program)
    /\ CallBodied(idx)
    /\ program[idx].fn.body[1].expr.f.name = "P::make"
    /\ cur.instructions = <<>>

(***************************************************************************)
(* C13: label references resolve to their defining Label                   *)
(***************************************************************************)
GotoTargets(ins) == {ins[p].label : p \in {q \in 1..Len(ins) : ins[q].op = "Goto"}}
ReferencedLabels(ins) == ThenLabels(ins) \cup ElseLabels(ins) \cup GotoTargets(ins)
DefiningPositions(ins, l) == {p \in 1..Len(ins) : ins[p].op = "Label" /\ ins[p].label = l}

\* the label a Branch or Goto of the body names is defined once in the body,
\* in no other body, and carries the number the numbering pass gave that Label
LabelsResolved(ins) ==
    \A l \in ReferencedLabels(ins) :
        /\ Cardinality(DefiningPositions(ins, l)) = 1
        /\ \A other \in FinishedBodies \ {ins} : DefiningPositions(other, l) = {}
        /\ l \in 1..Len(cells)
        /\ cells[l] # 0
        /\ \A p \in DefiningPositions(ins, l) : cells[l] = NumberedUpTo(ins, p)

\* C13: after numbering, every label a Branch or Goto names has exactly one
\* defining Label instruction in the same body, and the reference reads the
\* non-zero number assigned at that Label, forward references included.
C13_LabelsResolved == \A ins \in FinishedBodies : LabelsResolved(ins)

\* two finished bodies with labels; in one a Goto and a Branch name labels
\* that are defined further down the stream
C13_Witness ==
    /\ pc = "done"
    /\ \E a, b \in FinishedBodies :
          /\ a # b
          /\ DefinedLabels(a) # {} /\ DefinedLabels(b) # {}
          /\ \E q \in 1..Len(a) :
                /\ a[q].op = "Goto"
                /\ \E p \in (q + 1)..Len(a) :
                      a[p].op = "Label" /\ a[p].label = a[q].label /\ cells[a[p].label] > 1
          /\ \E q \in 1..Len(a) :
                /\ a[q].op = "Branch"
                /\ \E p \in (q + 2)..Len(a) :
                      a[p].op = "Label" /\ a[p].label = a[q].if_false

(***************************************************************************)
(* C14: an identifier that names a global variable                         *)
(***************************************************************************)
ParameterNames(f) == {f.parameters[j].name : j \in 1..Len(f.parameters)}

\* declaration i is a function whose body is the single identifier of a
\* registered global variable that no parameter shadows
NamesGlobalVariable(i) ==
    /\ program[i].k = "Function"
    /\ program[i].fn.body # <<>>
    /\ program[i].fn.body[1].k = "Expr"
    /\ program[i].fn.body[1].expr.k = "Identifier"
    /\ program[i].fn.body[1].expr.name \in DOMAIN known_variables
    /\ program[i].fn.body[1].expr.name \notin ParameterNames(program[i].fn)

\* C14: while a function body is lowered, an identifier that names a global
\* variable registered in the pre-pass, and no local binding, resolves to an
\* Identifier with the declared type of the variable, whether the variable is
\* declared before or after the function.
C14_GlobalVariableResolves ==
    \A i \in 1..Len(program) :
        NamesGlobalVariable(i) /\ BodyBuiltFor(i)
            => /\ pc # "abort"
               /\ BuiltStream(i)
                    = <<Return(<<Identifier(known_variables[program[i].fn.body[1].expr.name],
                                            program[i].fn.body[1].expr.name)>>)>>

\* lowering stopped in main, whose body is the global x registered as int
C14_Witness ==
    /\ pc = "abort"
    /\ idx \in 1..Len(program)
    /\ NamesGlobalVariable(idx)
    /\ BodyBuiltFor(idx)
    /\ known_variables["x"] = TInt(64)
    /\ "x" \notin DOMAIN known_functions
    /\ cur.instructions = <<>>

(***************************************************************************)
(* Queries on ir::Type (a third specification, TypeSpec)                   *)
(***************************************************************************)
\* Type::size
RECURSIVE TypeSize(_)
RECURSIVE FieldsSize(_, _)
TypeSize(t) ==
    CASE t.t \in {"Int", "Float"} -> t.size
      [] t.t = "Pointer" -> 64
      [] t.t = "Array" -> t.len * TypeSize(t.elem)
      [] t.t = "Struct" -> FieldsSize(t.fields, 1)
      [] OTHER -> 0

\* Type::size, the `for field in fields` loop
FieldsSize(fields, i) ==
    IF i > Len(fields) THEN 0 ELSE TypeSize(fields[i].typ) + FieldsSize(fields, i + 1)

\* Type::element_type: only Struct, Pointer and Array have one
ElementTypePanics(t) == t.t \notin {"Struct", "Pointer", "Array"}

ElementType(t) ==
    CASE t.t = "Struct" -> TNamed(t.name)
      [] t.t \in {"Pointer", "Array"} -> t.elem
      [] OTHER -> TVoid

\* the types a query is called on
StructC == TStruct("C", <<[name |-> "x", typ |-> TInt(64)], [name |-> "y", typ |-> TInt(64)]>>)
StructQ == TStruct("Q", <<[name |-> "s", typ |-> TPointer(TInt(8))], [name |-> "c", typ |-> StructC]>>)
StructD ==
    TStruct("D", <<[name |-> "x", typ |-> TInt(64)], [name |-> "y", typ |-> TInt(1)],
                   [name |-> "x", typ |-> TFloat(64)]>>)
PlainTypes ==
    {TVoid, TInt(1), TInt(8), TInt(64), TFloat(64), StructC, StructQ, StructD,
     TNamed("C"), TNamed("Foo")}
TypeInputs ==
    PlainTypes \cup {TPointer(e) : e \in PlainTypes}
               \cup {TArray(l, e) : l \in 1..MaxLen, e \in PlainTypes}
TypeTables == {EmptyMap, Put(EmptyMap, "C", StructC), Put(Put(EmptyMap, "C", StructC), "Q", StructQ)}

\* a Type and the type table of the module it belongs to
TypeInit ==
    /\ program = <<>>
    /\ pc = "types"
    /\ idx = 1
    /\ known_functions = EmptyMap
    /\ known_variables = EmptyMap
    /\ types \in TypeTables
    /\ functions = EmptyMap
    /\ variables = <<>>
    /\ cur = [instructions |-> <<>>, variables |-> EmptyMap]
    /\ counter = 0
    /\ pos = 0
    /\ cells = <<>>
    /\ IdleChecker
    /\ ty_arg \in TypeInputs
    /\ ty_out = NoQuery

\* a call of Type::size on ty_arg
SizeQuery ==
    /\ pc = "types" /\ ty_out.op = "none"
    /\ ty_out' = [op |-> "size", panic |-> FALSE, size |-> TypeSize(ty_arg), typ |-> TVoid]
    /\ UNCHANGED <<program, gen_vars, ck_vars, ty_arg>>

\* a call of Type::element_type on ty_arg
ElementTypeQuery ==
    /\ pc = "types" /\ ty_out.op = "none"
    /\ ty_out' = [op |-> "element_type", panic |-> ElementTypePanics(ty_arg), size |-> 0,
                  typ |-> ElementType(ty_arg)]
    /\ UNCHANGED <<program, gen_vars, ck_vars, ty_arg>>

\* the caller goes on to query the element type it was given
QueryElement ==
    /\ pc = "types" /\ ty_out.op = "element_type" /\ ~ty_out.panic
    /\ ty_arg' = ty_out.typ
    /\ ty_out' = NoQuery
    /\ UNCHANGED <<program, gen_vars, ck_vars>>

\* the names a member access asks for
MemberNames == {"x", "y", "c", "zz"}

\* the MemberAccess arm on a base that is already lowered to a value of type t
MemberAccessOfType(t, access) ==
    MemberAccessOn(Res([instructions |-> <<>>, locals |-> EmptyMap, next_id |-> 1,
                        globals |-> <<>>, panic |-> FALSE],
                       Identifier(t, "v")),
                   access, [types |-> types, known_functions |-> EmptyMap])

\* a member access `v.access` on a value v of type ty_arg
MemberQuery ==
    /\ pc = "types" /\ ty_out.op = "none"
    /\ \E access \in MemberNames :
          /\ ty_out' = [op |-> "member", panic |-> MemberAccessOfType(ty_arg, access).st.panic,
                        size |-> 0, typ |-> ExprType(MemberAccessOfType(ty_arg, access).val),
                        access |-> access]
          /\ cur' = [instructions |-> MemberAccessOfType(ty_arg, access).st.instructions,
                     variables |-> EmptyMap]
    /\ UNCHANGED <<program, pc, idx, known_functions, known_variables, types, functions,
                   variables, counter, pos, cells, ck_vars, ty_arg>>

TypeNext == SizeQuery \/ ElementTypeQuery \/ QueryElement \/ MemberQuery

TypeSpec == TypeInit /\ [][TypeNext]_vars

(***************************************************************************)
(* C15: queries on a Named type (checked under TypeSpec)                   *)
(***************************************************************************)
Unresolved(t) == t.t = "Named" /\ t.name \notin DOMAIN types

\* C15: a size or element-type query on a Named type that has not been
\* resolved against the type table of the module is a fatal internal error:
\* Type::size and Type::element_type never return a result for it.
C15_NamedQueriesAbort ==
    (ty_out.op \in {"size", "element_type"} /\ Unresolved(ty_arg)) => ty_out.panic

\* Type::size has returned 0 for Named("Foo"), which no type table resolves
C15_Witness ==
    /\ ty_arg = TNamed("Foo")
    /\ types = EmptyMap
    /\ ty_out.op = "size"
    /\ ~ty_out.panic
    /\ ty_out.size = 0

\* the part that holds: Type::element_type panics on every Named type
ElementTypeOfNamedPanics ==
    (ty_out.op = "element_type" /\ ty_arg.t = "Named") => ty_out.panic

(***************************************************************************)
(* C16: the linear form of an if chain                                     *)
(***************************************************************************)
\* the instruction at position q of the stream, if there is one
OpAt(ins, q) == IF q \in 1..Len(ins) THEN ins[q].op ELSE "none"
IsLabelAt(ins, q, l) == OpAt(ins, q) = "Label" /\ ins[q].label = l
IsGotoAt(ins, q, l) == OpAt(ins, q) = "Goto" /\ ins[q].label = l

\* Each Match operator reads the stream from position p + 1 on and answers
\* the position of the last instruction of the form it matches, or -1.
RECURSIVE MatchStatement(_, _, _)
RECURSIVE MatchBlock(_, _, _)
RECURSIVE MatchClauses(_, _, _, _)

\* after a block that ends at e: Goto(leave) unless the stream ends in a
\* terminator there, then Label(next)
MatchClose(ins, e, leave, next) ==
    IF e < 1 THEN -1
    ELSE IF OpAt(ins, e) \in TerminatorOps
         THEN IF IsLabelAt(ins, e + 1, next) THEN e + 1 ELSE -1
         ELSE IF IsGotoAt(ins, e + 1, leave) /\ IsLabelAt(ins, e + 2, next)
              THEN e + 2 ELSE -1

\* one clause from the Branch at b on: Branch{then, next}, Label(then), the
\* block, the optional Goto(leave), Label(next), then the remaining clauses
MatchClauseAt(ins, b, clauses, leave) ==
    IF OpAt(ins, b) # "Branch" THEN -1
    ELSE IF ins[b].if_true = ins[b].if_false \/ leave \in {ins[b].if_true, ins[b].if_false}
         THEN -1
    ELSE IF ~IsLabelAt(ins, b + 1, ins[b].if_true) THEN -1
    ELSE MatchClauses(ins,
                      MatchClose(ins, MatchBlock(ins, b + 1, Head(clauses).block),
                                 leave, ins[b].if_false),
                      Tail(clauses), leave)

MatchClauses(ins, p, clauses, leave) ==
    IF p < 0 \/ clauses = <<>> THEN p
    ELSE MatchClauseAt(ins, p + ExprSize(Head(clauses).cond) + 1, clauses, leave)

\* the whole chain with `leave` as its shared leave label
MatchIfWith(ins, p, stmt, leave) ==
    MatchClose(ins,
               MatchBlock(ins, MatchClauses(ins, p, stmt.clauses, leave), stmt.else_block),
               leave, leave)

PickLeave(ins, p, stmt, leaves) ==
    IF leaves = {} THEN -1 ELSE MatchIfWith(ins, p, stmt, CHOOSE l \in leaves : TRUE)

MatchIf(ins, p, stmt) ==
    PickLeave(ins, p, stmt, {l \in DefinedLabels(ins) : MatchIfWith(ins, p, stmt, l) > 0})

MatchStatement(ins, p, stmt) ==
    CASE stmt.k = "IfBlock" -> MatchIf(ins, p, stmt)
      [] stmt.k = "Return" ->
           IF stmt.opt = <<>>
           THEN (IF OpAt(ins, p + 1) = "Return" THEN p + 1 ELSE -1)
           ELSE (IF OpAt(ins, p + ExprSize(stmt.opt[1]) + 1) = "Return"
                 THEN p + ExprSize(stmt.opt[1]) + 1 ELSE -1)
      [] OTHER -> IF p + ExprSize(stmt.expr) <= Len(ins) THEN p + ExprSize(stmt.expr) ELSE -1

MatchBlock(ins, p, stmts) ==
    IF p < 0 \/ stmts = <<>> THEN p
    ELSE MatchBlock(ins, MatchStatement(ins, p, Head(stmts)), Tail(stmts))

\* the labels an if chain allocates: two for each clause and the leave label,
\* and those of the chains nested in its blocks
RECURSIVE LabelCount(_)
RECURSIVE ClauseLabelCount(_)
LabelCount(stmts) ==
    IF stmts = <<>> THEN 0
    ELSE (IF Head(stmts).k = "IfBlock"
          THEN 1 + ClauseLabelCount(Head(stmts).clauses) + LabelCount(Head(stmts).else_block)
          ELSE 0) + LabelCount(Tail(stmts))
ClauseLabelCount(clauses) ==
    IF clauses = <<>> THEN 0
    ELSE 2 + LabelCount(Head(clauses).block) + ClauseLabelCount(Tail(clauses))

BlockFns ==
    {i \in LoweredFns : program[i].fn.body # <<>> /\ program[i].fn.body[1].k = "Block"}

\* C16: an if chain lowers to, for each clause, the instructions of the
\* condition, Branch{then_i, next_i}, Label(then_i), the block, Goto(leave)
\* unless the block ends in a terminator, Label(next_i); then the else-block,
\* Goto(leave) unless it ends in a terminator, and Label(leave). then_i and
\* next_i are fresh for each clause, the one leave label is shared, and
\* Label(leave) appears exactly once even when no Goto names it; a nested
\* chain has the same form with labels of its own.
C16_IfChainForm ==
    \A i \in BlockFns :
        /\ MatchBlock(StreamOf(i), 0, StatementsOf(i)) = Len(StreamOf(i))
        /\ Cardinality(DefinedLabels(StreamOf(i))) = LabelCount(StatementsOf(i))
        /\ \A l \in DefinedLabels(StreamOf(i)) :
              Cardinality(DefiningPositions(StreamOf(i), l)) = 1

\* a finished body with an if chain nested in a clause of another, in which
\* the Label of some leave label is in the stream though no Goto names it
C16_Witness ==
    /\ pc = "done"
    /\ \E i \in BlockFns :
          /\ \E j \in 1..Len(StatementsOf(i)) :
                /\ StatementsOf(i)[j].k = "IfBlock"
                /\ StatementsOf(i)[j].clauses[1].block # <<>>
                /\ StatementsOf(i)[j].clauses[1].block[1].k = "IfBlock"
          /\ DefinedLabels(StreamOf(i)) \ ReferencedLabels(StreamOf(i)) # {}
          /\ GotoTargets(StreamOf(i)) # {}

(***************************************************************************)
(* C17: every ID cell is written once, by the numbering pass               *)
(***************************************************************************)
\* the cells Variable::from_id gave to the hoisted string constants
StringCells ==
    {variables[k].name.id : k \in {j \in 1..Len(variables) : variables[j].name.g = "ID"}}

\* the cells of the labels and instruction results of a stream
ResultCells(ins) == {IdCellOf(ins[p]) : p \in {q \in 1..Len(ins) : ins[q].op \in NumberedOps}}

\* while the numbering loop runs, the cells of the instructions it has not
\* reached hold the placeholder and the others do not
WrittenUpToPos ==
    pc = "number" =>
        \A q \in 1..Len(cur.instructions) :
            cur.instructions[q].op \in NumberedOps
                => (cells[IdCellOf(cur.instructions[q])] = 0 <=> q >= pos)

\* no two instructions of the stream own the same cell
OneOwner(ins) ==
    \A p, q \in 1..Len(ins) :
        (p # q /\ ins[p].op \in NumberedOps /\ ins[q].op \in NumberedOps)
            => IdCellOf(ins[p]) # IdCellOf(ins[q])

\* no body is under construction
BodiesComplete == pc \in {"lower", "done"}

\* C17: every ID cell allocated while a body is lowered, for a label, an
\* instruction result or a hoisted string constant, starts at the placeholder
\* 0 and is written exactly once, by the numbering pass, after every
\* instruction of the body is created; once the lowering of its body is
\* complete no cell holds the placeholder, and none is written twice.
C17_CellsWrittenOnce ==
    /\ WrittenUpToPos
    /\ pc = "number" => OneOwner(cur.instructions)
    /\ \A ins \in FinishedBodies : OneOwner(ins)
    /\ BodiesComplete => \A c \in 1..Len(cells) : cells[c] # 0

\* the module is complete and the cell of a hoisted string constant, named by
\* the GEP of a finished body, still holds the placeholder
C17_Witness ==
    /\ pc = "done"
    /\ \E c \in StringCells :
          /\ c \in 1..Len(cells)
          /\ cells[c] = 0
          /\ \E ins \in FinishedBodies :
                \E q \in 1..Len(ins) :
                    /\ ins[q].op = "GEP"
                    /\ ins[q].load_from = GlobalIdentifier(ins[q].load_from.typ, c)
                    /\ cells[ins[q].id] # 0

\* the part that holds: only the cells of string constants keep the placeholder
OnlyStringCellsUnset ==
    /\ WrittenUpToPos
    /\ pc = "number" => OneOwner(cur.instructions)
    /\ \A ins \in FinishedBodies : OneOwner(ins)
    /\ BodiesComplete => \A c \in 1..Len(cells) : cells[c] = 0 <=> c \in StringCells

\* the part that holds: a cell changes only from the placeholder, only in the
\* numbering loop, and cells are created holding the placeholder
CellWrites ==
    [][/\ Len(cells') >= Len(cells)
       /\ \A c \in 1..Len(cells) :
             cells'[c] # cells[c] => cells[c] = 0 /\ pc = "number" /\ pc' = "number"
       /\ \A c \in (Len(cells) + 1)..Len(cells') : cells'[c] = 0 /\ pc = "lower"]_vars

(***************************************************************************)
(* C18: which ID cells are shared, and with whom                           *)
(***************************************************************************)
\* the cell an Expr refers to
ExprCells(x) == IF x.e \in {"LocalIdentifier", "GlobalIdentifier"} THEN {x.id} ELSE {}

\* the cells an instruction refers to, as its own id, as a label, or through
\* an operand
InstCells(inst) ==
    CASE inst.op = "Return" -> IF inst.value = <<>> THEN {} ELSE ExprCells(inst.value[1])
      [] inst.op \in {"Label", "Goto"} -> {inst.label}
      [] inst.op = "Branch" -> ExprCells(inst.cond) \cup {inst.if_true, inst.if_false}
      [] inst.op \in {"GEP", "Load"} -> {inst.id} \cup ExprCells(inst.load_from)
      [] inst.op = "FunctionCall" ->
           {inst.id} \cup UNION {ExprCells(inst.args_expr[k]) : k \in 1..Len(inst.args_expr)}
      [] inst.op = "BinaryOperation" ->
           {inst.id} \cup ExprCells(inst.lhs) \cup ExprCells(inst.rhs)
      [] inst.op = "Malloca" -> {inst.id}
      [] inst.op = "BitCast" -> {inst.id, inst.from_id}
      [] inst.op = "Store" -> ExprCells(inst.source) \cup {inst.destination}

BodyCells(ins) == UNION {InstCells(ins[q]) : q \in 1..Len(ins)}

\* the cells the body names as globals: the load_from of the GEP of a string
GlobalCells(ins) ==
    {ins[q].load_from.id :
        q \in {r \in 1..Len(ins) : ins[r].op = "GEP" /\ ins[r].load_from.e = "GlobalIdentifier"}}

NoCellInTwoBodies ==
    \A a, b \in FinishedBodies : a # b => BodyCells(a) \cap BodyCells(b) = {}

\* C18 as stated: no ID cell is shared across a
\* function boundary, neither with another Body nor with the list of global
\* variables of the Module
C18_NoSharedCell ==
    /\ NoCellInTwoBodies
    /\ \A ins \in FinishedBodies : BodyCells(ins) \cap StringCells = {}

\* C18 (amended): no ID cell is referenced from two function bodies. The only
\* cells referenced from outside a Body are those of the string constants it
\* hoisted: each is shared between one entry of Module.variables and the
\* load_from of GEPs of that one Body.
C18_SharedOnlyWithGlobals ==
    /\ NoCellInTwoBodies
    /\ \A ins \in FinishedBodies : BodyCells(ins) \cap StringCells = GlobalCells(ins)
    /\ \A j, k \in 1..Len(variables) :
          (j # k /\ variables[j].name.g = "ID" /\ variables[k].name.g = "ID")
             => variables[j].name.id # variables[k].name.id
    /\ BodiesComplete =>
          StringCells = UNION {GlobalCells(ins) : ins \in FinishedBodies}

\* a complete module with two bodies, each with labels or results of its own
\* and each sharing the cell of a string constant with Module.variables
C18_Witness ==
    /\ pc = "done"
    /\ \E a, b \in FinishedBodies :
          /\ a # b
          /\ GlobalCells(a) # {} /\ GlobalCells(b) # {}
          /\ GlobalCells(a) \subseteq StringCells
          /\ GlobalCells(b) \subseteq StringCells
          /\ BodyCells(a) \ GlobalCells(a) # {} /\ BodyCells(b) \ GlobalCells(b) # {}

(***************************************************************************)
(* C19: a local Variable statement and a later use of its name             *)
(***************************************************************************)
\* declaration i is a function whose block is `n: T = e; return n;`
DeclaresThenReturns(i) ==
    /\ program[i].k = "Function"
    /\ program[i].fn.body # <<>>
    /\ program[i].fn.body[1].k = "Block"
    /\ Len(program[i].fn.body[1].statements) = 2
    /\ program[i].fn.body[1].statements[1].k = "Variable"
    /\ program[i].fn.body[1].statements[2].k = "Return"
    /\ program[i].fn.body[1].statements[2].opt
          = <<EId(program[i].fn.body[1].statements[1].name)>>

\* Body.variables of declaration i once Body::from_ast has run on it
BuiltLocals(i) == IF i \in LoweredFns THEN LoweredFn(i).body[1].variables ELSE cur.variables

LocalStatement(i) == program[i].fn.body[1].statements[1]

\* C19: after generate_instructions has lowered a local Variable statement
\* `y: T = e`, the name y is in the local table of the body with type T, so a
\* later Identifier y of the same body resolves to that local and not to a
\* global function or a fatal error.
C19_LocalRecorded ==
    \A i \in 1..Len(program) :
        DeclaresThenReturns(i) /\ BodyBuiltFor(i)
            => /\ pc # "abort"
               /\ LocalStatement(i).name \in DOMAIN BuiltLocals(i)
               /\ BuiltLocals(i)[LocalStatement(i).name].typ
                     = TypeFromAst(LocalStatement(i).typ, types)
               /\ Last(BuiltStream(i))
                     = Return(<<Identifier(TypeFromAst(LocalStatement(i).typ, types),
                                           LocalStatement(i).name)>>)

\* the module is complete; main declared the local ok: int and returned it,
\* and the Return carries the global function ok with its return type
C19_Witness ==
    /\ pc = "done"
    /\ \E i \in LoweredFns :
          /\ DeclaresThenReturns(i)
          /\ LocalStatement(i).name = "ok"
          /\ LocalStatement(i).typ = PT("int")
          /\ "ok" \notin DOMAIN LoweredFn(i).body[1].variables
          /\ StreamOf(i) = <<Return(<<Identifier(TInt(1), "ok")>>)>>

\* the other outcome: with no function of that name the lowering stops
LocalUseAborts ==
    \A i \in 1..Len(program) :
        (/\ DeclaresThenReturns(i) /\ BodyBuiltFor(i)
         /\ LocalStatement(i).name \notin ParameterNames(program[i].fn)
         /\ LocalStatement(i).name \notin DOMAIN known_functions)
            => pc = "abort"

(***************************************************************************)
(* C20: resolution of an Identifier                                        *)
(***************************************************************************)
\* declaration i is a function whose body is one identifier, or a sum with one
IdentifierBodied(i) ==
    /\ program[i].k = "Function"
    /\ program[i].fn.body # <<>>
    /\ program[i].fn.body[1].k = "Expr"
    /\ program[i].fn.body[1].expr.k = "Identifier"

SumBodied(i) ==
    /\ program[i].k = "Function"
    /\ program[i].fn.body # <<>>
    /\ program[i].fn.body[1].k = "Expr"
    /\ program[i].fn.body[1].expr.k = "Binary"
    /\ program[i].fn.body[1].expr.rhs.k = "Identifier"

\* the type the parameter loop of Body::from_ast recorded for the name
ParameterType(f, n) ==
    TypeFromAst(f.parameters[CHOOSE j \in 1..Len(f.parameters) : f.parameters[j].name = n].typ,
                types)

RegisteredGlobals == DOMAIN known_functions \cup DOMAIN known_variables

\* a name of the local table resolves to the local, whatever is registered
LocalWins(i, n) ==
    (n \in ParameterNames(program[i].fn) /\ BodyBuiltFor(i))
        => /\ pc # "abort"
           /\ BuiltLocals(i)[n] = [typ |-> ParameterType(program[i].fn, n), name |-> n]
           /\ BuiltStream(i) = <<Return(<<Identifier(ParameterType(program[i].fn, n), n)>>)>>

\* a name that is nowhere stops the lowering before any Expr is produced
UnknownAborts(i, n) ==
    (n \notin ParameterNames(program[i].fn) /\ n \notin RegisteredGlobals /\ BodyBuiltFor(i))
        => /\ pc = "abort"
           /\ i \notin LoweredFns
           /\ cur.instructions = <<>>

\* C20: an Identifier whose name is in the local table of the body resolves to
\* the local binding with the type of the local, even if a global function of
\* that name is registered; a name found neither in the local table nor among
\* the registered globals aborts the lowering and never produces an Expr.
C20_IdentifierResolution ==
    \A i \in 1..Len(program) :
        /\ IdentifierBodied(i)
              => /\ LocalWins(i, program[i].fn.body[1].expr.name)
                 /\ UnknownAborts(i, program[i].fn.body[1].expr.name)
        /\ SumBodied(i) => UnknownAborts(i, program[i].fn.body[1].expr.rhs.name)

\* the module is complete; the body of main is the parameter a: int, a
\* function a(): bool is registered, and the Return carries the local
C20_Witness ==
    /\ pc = "done"
    /\ "a" \in DOMAIN known_functions
    /\ known_functions["a"] = TInt(1)
    /\ \E i \in LoweredFns :
          /\ IdentifierBodied(i)
          /\ program[i].fn.body[1].expr.name = "a"
          /\ "a" \in ParameterNames(program[i].fn)
          /\ StreamOf(i) = <<Return(<<Identifier(TInt(64), "a")>>)>>

\* the other case: the unknown name zz has stopped the lowering of main
UnknownNameStops ==
    /\ pc = "abort"
    /\ idx \in 1..Len(program)
    /\ IdentifierBodied(idx)
    /\ program[idx].fn.body[1].expr.name = "zz"
    /\ PrepassDone
    /\ cur.instructions = <<>>

(***************************************************************************)
(* C21: the stream of a class construction                                 *)
(***************************************************************************)
\* declaration i is a function whose body is one class construction
ConstructionBodied(i) ==
    /\ program[i].k = "Function"
    /\ program[i].fn.body # <<>>
    /\ program[i].fn.body[1].k = "Expr"
    /\ program[i].fn.body[1].expr.k = "ClassConstruction"
    /\ program[i].fn.body[1].expr.class \in DOMAIN types

\* every field of the class, and of the classes constructed in the
\* initializers, has an initializer
RECURSIVE FullyInitialized(_)
FullyInitialized(e) ==
    e.k = "ClassConstruction" =>
        /\ e.class \in DOMAIN types
        /\ \A k \in 1..Len(types[e.class].fields) :
              /\ types[e.class].fields[k].name \in DOMAIN e.inits
              /\ FullyInitialized(e.inits[types[e.class].fields[k].name])

\* the Store at position s keeps the value of the initializer, whose
\* instructions lie between the GEP at g and the Store
StoresInitializer(ins, g, s, init) ==
    /\ OpAt(ins, s) = "Store"
    /\ ins[s].destination = ins[g].id
    /\ init.k = "Int" => ins[s].source = I64(init.i)
    /\ init.k = "Identifier" => ins[s].source.e = "Identifier" /\ ins[s].source.name = init.name
    /\ init.k \notin {"Int", "Bool", "Identifier"}
          => /\ ins[s].source.e = "LocalIdentifier"
             /\ \E q \in (g + 1)..(s - 1) :
                   ins[q].op \in NumberedOps /\ ins[q].op # "Label" /\ ins[q].id = ins[s].source.id

\* fields k.. of the class from position p + 1 on: GEP [0, k-1] on the
\* bitcast value, the instructions of the initializer, the Store; answers the
\* position of the last Store, or -1
RECURSIVE MatchFields(_, _, _, _, _, _)
MatchFields(ins, p, fields, k, inits, cast) ==
    IF p < 0 \/ k > Len(fields) THEN p
    ELSE IF /\ OpAt(ins, p + 1) = "GEP"
            /\ ins[p + 1].load_from = cast
            /\ ins[p + 1].indices = <<0, k - 1>>
            /\ StoresInitializer(ins, p + 1, p + 2 + ExprSize(inits[fields[k].name]),
                                 inits[fields[k].name])
         THEN MatchFields(ins, p + 2 + ExprSize(inits[fields[k].name]), fields, k + 1,
                          inits, cast)
         ELSE -1

\* the Stores into the fields of the value `cast`
FieldStores(ins, cast) ==
    {s \in 1..Len(ins) :
        /\ ins[s].op = "Store"
        /\ \E g \in 1..Len(ins) :
              ins[g].op = "GEP" /\ ins[g].load_from = cast /\ ins[g].id = ins[s].destination}

ConstructionShape(ins, e) ==
    /\ OpAt(ins, 1) = "Malloca" /\ ins[1].typ = types[e.class]
    /\ OpAt(ins, 2) = "BitCast"
    /\ ins[2].from_id = ins[1].id /\ ins[2].target_type = types[e.class]
    /\ MatchFields(ins, 2, types[e.class].fields, 1, e.inits,
                   LocalIdentifier(types[e.class], ins[2].id)) = Len(ins) - 1
    /\ Cardinality(FieldStores(ins, LocalIdentifier(types[e.class], ins[2].id)))
          = Len(types[e.class].fields)
    /\ Last(ins) = Return(<<LocalIdentifier(types[e.class], ins[2].id)>>)

\* C21: a class construction lowers to one Malloca of the class type, one
\* BitCast of the Malloca's id, then for each field in declaration order (i
\* from 0) one GEP [0, i] on the bitcast value and one Store of the lowered
\* initializer into the id of that GEP; there are as many Stores as fields,
\* the value is the bitcast id, and a field without initializer aborts.
C21_ClassConstruction ==
    \A i \in 1..Len(program) :
        (ConstructionBodied(i) /\ BodyBuiltFor(i))
            => IF FullyInitialized(program[i].fn.body[1].expr)
               THEN pc # "abort" /\ ConstructionShape(BuiltStream(i), program[i].fn.body[1].expr)
               ELSE pc = "abort" /\ i \notin LoweredFns

\* the module is complete; main constructs C with a nested construction as
\* the initializer of x
C21_Witness ==
    /\ pc = "done"
    /\ \E i \in LoweredFns :
          /\ ConstructionBodied(i)
          /\ "x" \in DOMAIN program[i].fn.body[1].expr.inits
          /\ program[i].fn.body[1].expr.inits["x"].k = "ClassConstruction"
          /\ Len(StreamOf(i)) > 8

\* the other case: the construction C { x: 1 } has stopped the lowering after
\* the GEP to the field y
MissingInitializerStops ==
    /\ pc = "abort"
    /\ idx \in 1..Len(program)
    /\ PrepassDone
    /\ ConstructionBodied(idx)
    /\ DOMAIN program[idx].fn.body[1].expr.inits = {"x"}
    /\ Len(cur.instructions) = 5
    /\ cur.instructions[5].op = "GEP"
    /\ cur.instructions[5].indices = <<0, 1>>

(***************************************************************************)
(* C22: the stream of a member access                                      *)
(***************************************************************************)
MemberBodied(i) ==
    /\ program[i].k = "Function"
    /\ program[i].fn.body # <<>>
    /\ program[i].fn.body[1].k = "Expr"
    /\ program[i].fn.body[1].expr.k = "MemberAccess"

HasField(t, access) ==
    t.t = "Struct" /\ \E k \in 1..Len(t.fields) : t.fields[k].name = access

\* one-based position of the first field named `access`
FirstField(t, access) ==
    CHOOSE k \in 1..Len(t.fields) :
        /\ t.fields[k].name = access
        /\ \A j \in 1..(k - 1) : t.fields[j].name # access

\* the declared return type of the function a call names
DeclaredReturn(name) ==
    IF \E j \in FunctionDecls : program[j].fn.name = name
    THEN TypeFromAst(program[CHOOSE j \in FunctionDecls : program[j].fn.name = name].fn.ret_typ,
                     types)
    ELSE TVoid

\* the type the source gives to the value of the expression e in function f
RECURSIVE AstType(_, _)
AstType(e, f) ==
    CASE e.k = "Int" -> TInt(64)
      [] e.k = "Bool" -> TInt(1)
      [] e.k = "Identifier" ->
            IF e.name \in ParameterNames(f) THEN ParameterType(f, e.name) ELSE TVoid
      [] e.k = "FuncCall" -> DeclaredReturn(e.f.name)
      [] e.k = "ClassConstruction" ->
            IF e.class \in DOMAIN types THEN types[e.class] ELSE TVoid
      [] e.k = "MemberAccess" ->
            IF HasField(AstType(e.from, f), e.access)
            THEN AstType(e.from, f).fields[FirstField(AstType(e.from, f), e.access)].typ
            ELSE TVoid
      [] OTHER -> TVoid

\* the base of every member access in e is a struct that has the field
RECURSIVE Resolves(_, _)
Resolves(e, f) ==
    CASE e.k = "MemberAccess" -> Resolves(e.from, f) /\ HasField(AstType(e.from, f), e.access)
      [] e.k = "ClassConstruction" -> FullyInitialized(e)
      [] OTHER -> TRUE

\* the instructions in the stream when the member access e stops the lowering
RECURSIVE EmittedBeforeStop(_, _)
EmittedBeforeStop(e, f) ==
    IF Resolves(e.from, f) THEN ExprSize(e.from)
    ELSE IF e.from.k = "MemberAccess" THEN EmittedBeforeStop(e.from, f)
    ELSE 0

\* the value the GEP at position g reads from is the value of the base
BaseValue(ins, g, from, f) ==
    /\ ExprType(ins[g].load_from) = AstType(from, f)
    /\ IF from.k = "Identifier"
       THEN ins[g].load_from = Identifier(AstType(from, f), from.name)
       ELSE /\ ins[g].load_from.e = "LocalIdentifier"
            /\ \E q \in 1..(g - 1) :
                  ins[q].op \in NumberedOps /\ ins[q].op # "Label"
                      /\ ins[q].id = ins[g].load_from.id

\* after the instructions of the base: GEP [0, i], Load of the GEP, Return
MemberShape(ins, e, f) ==
    /\ Len(ins) = ExprSize(e.from) + 3
    /\ OpAt(ins, ExprSize(e.from) + 1) = "GEP"
    /\ BaseValue(ins, ExprSize(e.from) + 1, e.from, f)
    /\ ins[ExprSize(e.from) + 1].indices = <<0, FirstField(AstType(e.from, f), e.access) - 1>>
    /\ OpAt(ins, ExprSize(e.from) + 2) = "Load"
    /\ ins[ExprSize(e.from) + 2].load_from
          = LocalIdentifier(AstType(e, f), ins[ExprSize(e.from) + 1].id)
    /\ ins[ExprSize(e.from) + 2].id # ins[ExprSize(e.from) + 1].id
    /\ ins[ExprSize(e.from) + 3]
          = Return(<<LocalIdentifier(AstType(e, f), ins[ExprSize(e.from) + 2].id)>>)

MemberAccessLowered ==
    \A i \in 1..Len(program) :
        (MemberBodied(i) /\ BodyBuiltFor(i))
            => IF Resolves(program[i].fn.body[1].expr, program[i].fn)
               THEN /\ pc # "abort"
                    /\ MemberShape(BuiltStream(i), program[i].fn.body[1].expr, program[i].fn)
               ELSE /\ pc = "abort" /\ i \notin LoweredFns
                    /\ Len(cur.instructions)
                          = EmittedBeforeStop(program[i].fn.body[1].expr, program[i].fn)

\* the struct a type stands for: itself, or its entry in the type table
ResolvedOnce(t) == IF t.t = "Named" /\ t.name \in DOMAIN types THEN types[t.name] ELSE t

MemberOfTypeResolved ==
    ty_out.op = "member"
        => IF HasField(ResolvedOnce(ty_arg), ty_out.access)
           THEN /\ ~ty_out.panic
                /\ ty_out.typ = ResolvedOnce(ty_arg).fields[
                                    FirstField(ResolvedOnce(ty_arg), ty_out.access)].typ
                /\ cur.instructions
                      = <<GEP(1, Identifier(ty_arg, "v"),
                              <<0, FirstField(ResolvedOnce(ty_arg), ty_out.access) - 1>>),
                          Load(2, LocalIdentifier(ty_out.typ, 1))>>
           ELSE ty_out.panic /\ cur.instructions = <<>>

\* C22: a member access base.f lowers the base, resolves the struct type of
\* its value through at most one Named indirection, and emits one GEP [0, i]
\* followed by one Load of the result of that GEP, i being the zero-based
\* position of the first field named f and the result having the type of
\* that field; a base that is no struct, or a name that matches no field,
\* stops the lowering and no GEP is emitted.
C22_MemberAccess == MemberAccessLowered /\ MemberOfTypeResolved

\* the module is complete; main reads x of a constructed D, which declares
\* x twice, after the instructions of the construction
C22_Witness ==
    /\ pc = "done"
    /\ \E i \in LoweredFns :
          /\ MemberBodied(i)
          /\ program[i].fn.body[1].expr.from.k = "ClassConstruction"
          /\ program[i].fn.body[1].expr.from.class = "D"
          /\ program[i].fn.body[1].expr.access = "x"
          /\ Len(StreamOf(i)) = 11
          /\ StreamOf(i)[9].op = "GEP"
          /\ StreamOf(i)[9].indices = <<0, 0>>

\* the other cases: the access a.x on the int parameter a, and p.zz on the
\* struct parameter p, have stopped the lowering with an empty stream
MemberAccessStops ==
    /\ pc = "abort"
    /\ idx \in 1..Len(program)
    /\ PrepassDone
    /\ MemberBodied(idx)
    /\ program[idx].fn.body[1].expr.from.k = "Identifier"
    /\ cur.instructions = <<>>

\* under TypeSpec: x of a value of type Named("C") is found through the type table
MemberThroughNamed ==
    /\ ty_out.op = "member"
    /\ ty_arg = TNamed("C")
    /\ "C" \in DOMAIN types
    /\ ty_out.access = "x"
    /\ ~ty_out.panic
    /\ Len(cur.instructions) = 2

(***************************************************************************)
(* C23: string literals                                                    *)
(***************************************************************************)
\* the literals of an expression in the order the lowering meets them
RECURSIVE ExprStrings(_)
RECURSIVE InitStrings(_, _, _)
RECURSIVE ArgStrings(_)
ExprStrings(e) ==
    CASE e.k = "String" -> <<e.s>>
      [] e.k = "ClassConstruction" ->
            IF e.class \in DOMAIN types THEN InitStrings(e.inits, types[e.class].fields, 1)
            ELSE <<>>
      [] e.k = "MemberAccess" -> ExprStrings(e.from)
      [] e.k = "Binary" -> ExprStrings(e.lhs) \o ExprStrings(e.rhs)
      [] e.k = "FuncCall" -> ArgStrings(e.args)
      [] OTHER -> <<>>
InitStrings(inits, fields, k) ==
    IF k > Len(fields) \/ fields[k].name \notin DOMAIN inits THEN <<>>
    ELSE ExprStrings(inits[fields[k].name]) \o InitStrings(inits, fields, k + 1)
ArgStrings(es) ==
    IF es = <<>> THEN <<>> ELSE ExprStrings(Head(es)) \o ArgStrings(Tail(es))

RECURSIVE StatementStrings(_)
RECURSIVE BlockStrings(_)
RECURSIVE ClauseStrings(_)
StatementStrings(s) ==
    CASE s.k = "Return" -> IF s.opt = <<>> THEN <<>> ELSE ExprStrings(s.opt[1])
      [] s.k = "IfBlock" -> ClauseStrings(s.clauses) \o BlockStrings(s.else_block)
      [] OTHER -> ExprStrings(s.expr)
BlockStrings(ss) ==
    IF ss = <<>> THEN <<>> ELSE StatementStrings(Head(ss)) \o BlockStrings(Tail(ss))
ClauseStrings(cs) ==
    IF cs = <<>> THEN <<>>
    ELSE ExprStrings(Head(cs).cond) \o BlockStrings(Head(cs).block) \o ClauseStrings(Tail(cs))

BodyStrings(body) ==
    IF body = <<>> THEN <<>>
    ELSE IF body[1].k = "Expr" THEN ExprStrings(body[1].expr)
    ELSE BlockStrings(body[1].statements)

\* the literals of the bodies lowered so far, in the order of the lowering
RECURSIVE LoweredStrings(_)
LoweredStrings(n) ==
    IF n = 0 THEN <<>>
    ELSE LoweredStrings(n - 1)
         \o (IF n \in LoweredFns \/ (pc = "number" /\ idx = n /\ program[n].k = "Function")
             THEN BodyStrings(program[n].fn.body)
             ELSE <<>>)

IsLiteralGlobal(v) == v.name.g = "ID"
GlobalLiterals == SelectSeq(variables, IsLiteralGlobal)

\* one global per lowered literal, equal literals included, in order
OneGlobalPerLiteral ==
    pc # "abort"
        => /\ Len(GlobalLiterals) = Len(LoweredStrings(Len(program)))
           /\ \A k \in 1..Len(GlobalLiterals) :
                 GlobalLiterals[k].expr = CString(LoweredStrings(Len(program))[k])

\* the streams that exist: those of the lowered bodies and the one being built
BuiltStreams ==
    {StreamOf(i) : i \in {j \in LoweredFns : program[j].fn.body # <<>>}}
        \cup (IF pc \in {"number", "abort"} THEN {cur.instructions} ELSE {})

LiteralGeps(ins) ==
    {q \in 1..Len(ins) : ins[q].op = "GEP" /\ ins[q].load_from.e = "GlobalIdentifier"}

\* the GEP at q reads [0, 0] of a global of its own, a CString of the length
\* its type says, and the call of the string constructor on the result of
\* the GEP follows it
LiteralPair(ins, q) ==
    /\ ins[q].indices = <<0, 0>>
    /\ Cardinality({k \in 1..Len(variables) :
                        variables[k].name = [g |-> "ID", id |-> ins[q].load_from.id]}) = 1
    /\ \A k \in 1..Len(variables) :
          variables[k].name = [g |-> "ID", id |-> ins[q].load_from.id]
              => /\ variables[k].expr.e = "CString"
                 /\ ins[q].load_from.typ
                       = TPointer(TArray(Len(variables[k].expr.s), TInt(8)))
    /\ \A q2 \in LiteralGeps(ins) : q2 # q => ins[q2].load_from.id # ins[q].load_from.id
    /\ OpAt(ins, q + 1) = "FunctionCall"
    /\ ins[q + 1].func_name = "@\"string::new\""
    /\ ins[q + 1].args_expr = <<LocalIdentifier(TPointer(TInt(8)), ins[q].id)>>
    /\ ins[q + 1].id # ins[q].id

\* a body that is one literal: the value of the call is the value returned
LiteralValue ==
    \A i \in LoweredFns :
        StringBodied(i)
            => /\ Len(StreamOf(i)) = 3
               /\ LiteralGeps(StreamOf(i)) = {1}
               /\ StreamOf(i)[3]
                     = Return(<<LocalIdentifier(StreamOf(i)[2].ret_type, StreamOf(i)[2].id)>>)

\* C23: every lowered string literal appends exactly one global constant to
\* the ordered global list of the module, equal literals each their own, and
\* emits exactly two instructions: a GEP [0, 0] whose base is the new global
\* and a FunctionCall of @"string::new" whose only argument is the result of
\* the GEP and whose value is the result of the expression.
C23_StringLiterals ==
    /\ OneGlobalPerLiteral
    /\ \A ins \in BuiltStreams :
          /\ \A q \in LiteralGeps(ins) : LiteralPair(ins, q)
          /\ pc # "abort" =>
                Cardinality({q \in 1..Len(ins) :
                                ins[q].op = "FunctionCall"
                                    /\ ins[q].func_name = "@\"string::new\""})
                    = Cardinality(LiteralGeps(ins))
    /\ LiteralValue

\* the module is complete; a body passes the literal "a" twice to one call,
\* and the global list holds two constants "a" under different ids
C23_Witness ==
    /\ pc = "done"
    /\ \E i \in LoweredFns :
          /\ program[i].fn.body # <<>>
          /\ BodyStrings(program[i].fn.body) = <<"a", "a">>
          /\ Cardinality(LiteralGeps(StreamOf(i))) = 2
    /\ \E k1, k2 \in 1..Len(variables) :
          /\ k1 # k2
          /\ variables[k1].expr = CString("a") /\ variables[k2].expr = CString("a")
          /\ variables[k1].name # variables[k2].name

(***************************************************************************)
(* The rules of a block, stated over the source text of a function: L is   *)
(* the table of the names bound in the function so far (parameters and     *)
(* locals), on top of the top-level environment.                           *)
(***************************************************************************)
LocalChain(L) == <<type_env, [variables |-> L, types |-> {}, in_class_scope |-> FALSE]>>

HasType(e, L, t) ==
    /\ TypeOfExpr(e, LocalChain(L)).err = "Ok"
    /\ Unify(t, TypeOfExpr(e, LocalChain(L)).typ)

\* the table after the declarations of a block, those of its ifs included
RECURSIVE BoundAfter(_, _)
RECURSIVE BoundAfterClauses(_, _)
BoundAfterStatement(L, s) ==
    CASE s.k = "Variable" ->
            IF From(s.typ, LocalChain(L)).err = "Ok"
            THEN Put(L, s.name, From(s.typ, LocalChain(L)).typ)
            ELSE L
      [] s.k = "IfBlock" -> BoundAfter(BoundAfterClauses(L, s.clauses), s.else_block)
      [] OTHER -> L
BoundAfter(L, stmts) ==
    IF stmts = <<>> THEN L ELSE BoundAfter(BoundAfterStatement(L, Head(stmts)), Tail(stmts))
BoundAfterClauses(L, cs) ==
    IF cs = <<>> THEN L ELSE BoundAfterClauses(BoundAfter(L, Head(cs).block), Tail(cs))

RECURSIVE BlockRule(_, _, _)
RECURSIVE StatementsRule(_, _, _, _)
RECURSIVE ClausesRule(_, _, _)
IfRule(s, L, rt) ==
    /\ ClausesRule(s.clauses, L, rt)
    /\ BlockRule(s.else_block, BoundAfterClauses(L, s.clauses), rt)
StatementRule(s, last, L, rt) ==
    CASE s.k = "Return" ->
            /\ last
            /\ IF s.opt = <<>> THEN Unify(rt, SemVoid) ELSE HasType(s.opt[1], L, rt)
      [] s.k = "Variable" ->
            /\ From(s.typ, LocalChain(L)).err = "Ok"
            /\ HasType(s.expr, L, From(s.typ, LocalChain(L)).typ)
            /\ s.name \notin DOMAIN L
            /\ last => Unify(rt, SemVoid)
      [] s.k = "Expression" ->
            /\ HasType(s.expr, L, SemVoid)
            /\ last => Unify(rt, SemVoid)
      [] s.k = "IfBlock" -> IfRule(s, L, rt)
StatementsRule(stmts, k, L, rt) ==
    k > Len(stmts)
        \/ /\ StatementRule(stmts[k], k = Len(stmts), L, rt)
           /\ StatementsRule(stmts, k + 1, BoundAfterStatement(L, stmts[k]), rt)
BlockRule(stmts, L, rt) ==
    IF stmts = <<>> THEN Unify(rt, SemVoid) ELSE StatementsRule(stmts, 1, L, rt)
ClausesRule(cs, L, rt) ==
    cs = <<>>
        \/ /\ HasType(Head(cs).cond, L, SemBool)
           /\ BlockRule(Head(cs).block, L, rt)
           /\ ClausesRule(Tail(cs), BoundAfter(L, Head(cs).block), rt)

\* declaration i is a function with a block body whose parameters are of
\* built-in types and have different names
BlockFunction(i) ==
    /\ program[i].k = "Function"
    /\ program[i].fn.body # <<>>
    /\ program[i].fn.body[1].k = "Block"
    /\ program[i].fn.ret_typ.name \in {"void", "int", "bool", "string"}
    /\ \A j \in 1..Len(program[i].fn.parameters) :
          /\ program[i].fn.parameters[j].typ.name \in {"int", "bool", "string"}
          /\ \A j2 \in 1..(j - 1) :
                program[i].fn.parameters[j2].name # program[i].fn.parameters[j].name

ReturnTypeOf(i) == SemType(program[i].fn.ret_typ.name, <<>>)

RECURSIVE ParameterTable(_, _)
ParameterTable(ps, j) ==
    IF j = 0 THEN EmptyMap
    ELSE Put(ParameterTable(ps, j - 1), ps[j].name, SemType(ps[j].typ.name, <<>>))
ParametersOf(i) == ParameterTable(program[i].fn.parameters, Len(program[i].fn.parameters))

BodyRule(i) == BlockRule(program[i].fn.body[1].statements, ParametersOf(i), ReturnTypeOf(i))

\* the checker accepts the body of declaration i exactly when the rules do
FollowsRules(i) ==
    /\ Passed3(i) => BodyRule(i)
    /\ FailedAt3(i) => ~BodyRule(i)

(***************************************************************************)
(* C24: if statements                                                      *)
(***************************************************************************)
RECURSIVE HasStatement(_, _)
RECURSIVE ClausesHaveStatement(_, _)
HasStatement(stmts, kind) ==
    \E k \in 1..Len(stmts) :
        \/ stmts[k].k = kind
        \/ /\ stmts[k].k = "IfBlock"
           /\ \/ ClausesHaveStatement(stmts[k].clauses, kind)
              \/ HasStatement(stmts[k].else_block, kind)
ClausesHaveStatement(cs, kind) == \E j \in 1..Len(cs) : HasStatement(cs[j].block, kind)

BodyHas(i, kind) == BlockFunction(i) /\ HasStatement(program[i].fn.body[1].statements, kind)

\* the table the checker held when it stopped
StoppedTable == Last(ck_site.env).variables

\* the first condition of the chain that is not of type Bool
FirstBadCondition(s, L) ==
    CHOOSE j \in 1..Len(s.clauses) :
        /\ ~HasType(s.clauses[j].cond, L, SemBool)
        /\ \A j2 \in 1..(j - 1) : HasType(s.clauses[j2].cond, L, SemBool)

\* a failure reported at an if statement itself is that of a condition, and
\* it is TypeMismatch when the condition has a type
ConditionFailure(i) ==
    (FailedAt3(i) /\ ck_site.stmt.k = "IfBlock")
        => /\ \E j \in 1..Len(ck_site.stmt.clauses) :
                 ~HasType(ck_site.stmt.clauses[j].cond, StoppedTable, SemBool)
           /\ TypeOfExpr(ck_site.stmt.clauses[FirstBadCondition(ck_site.stmt, StoppedTable)].cond,
                         LocalChain(StoppedTable)).err = "Ok"
                 => result = "TypeMismatch"

\* C24: an if statement passes check_block exactly when, the clauses taken in
\* source order, every condition unifies with Bool (TypeMismatch otherwise)
\* and every clause block, then the else-block, passes check_block against
\* the return type of the enclosing function under the rules of the
\* top-level block: a return only as the last statement, an empty block only
\* if the return type unifies with Void, a trailing Variable or Expression
\* only if Void unifies with the return type.
C24_IfStatement ==
    \A i \in 1..Len(program) :
        BodyHas(i, "IfBlock") => FollowsRules(i) /\ ConditionFailure(i)

\* the checker has accepted an int function whose body is an else-if chain
\* of three returning blocks
C24_Witness ==
    /\ result = "Ok"
    /\ \E i \in 1..Len(program) :
          /\ BodyHas(i, "IfBlock")
          /\ program[i].fn.ret_typ.name = "int"
          /\ Len(program[i].fn.body[1].statements) = 1
          /\ Len(program[i].fn.body[1].statements[1].clauses) = 2
          /\ program[i].fn.body[1].statements[1].else_block # <<>>

\* the other case: the int condition of the second clause is a TypeMismatch
ConditionMismatch ==
    /\ result = "TypeMismatch"
    /\ ck_pass = 3
    /\ ck_site.stmt.k = "IfBlock"
    /\ Len(ck_site.stmt.clauses) = 2
    /\ ck_site.stmt.clauses[2].cond.k \in {"Identifier", "Int"}

(***************************************************************************)
(* C25: expression statements                                              *)
(***************************************************************************)
StoppedType(e) == TypeOfExpr(e, LocalChain(StoppedTable))

\* a failure reported at an expression statement whose expression has a type
\* is a TypeMismatch: the type is not Void, or the statement is the last of
\* its block and the return type is not Void
ExpressionFailure(i) ==
    (FailedAt3(i) /\ ck_site.stmt.k = "Expression")
        => IF StoppedType(ck_site.stmt.expr).err # "Ok"
           THEN result = StoppedType(ck_site.stmt.expr).err
           ELSE /\ result = "TypeMismatch"
                /\ \/ ~Unify(SemVoid, StoppedType(ck_site.stmt.expr).typ)
                   \/ ck_site.last /\ ~Unify(ReturnTypeOf(i), SemVoid)

\* C25: a bare expression statement is accepted only if the type inferred
\* for it unifies with Void, and is a TypeMismatch otherwise; when it is the
\* last statement, Void must also unify with the return type of the function.
C25_ExpressionStatement ==
    \A i \in 1..Len(program) :
        BodyHas(i, "Expression") => FollowsRules(i) /\ ExpressionFailure(i)

\* the call g(1) of an int function, followed by a return, is a TypeMismatch
C25_Witness ==
    /\ result = "TypeMismatch"
    /\ ck_pass = 3
    /\ ck_site.stmt.k = "Expression"
    /\ ~ck_site.last
    /\ ck_site.stmt.expr.k = "FuncCall"
    /\ ck_site.stmt.expr.f = EId("g")

\* the other cases: the void call h() as the last statement of an int
\* function, and two void calls accepted as the body of a void function
TrailingCallMismatch ==
    /\ result = "TypeMismatch"
    /\ ck_pass = 3
    /\ ck_site.stmt = CallH
    /\ ck_site.last
VoidCallsAccepted ==
    /\ result = "Ok"
    /\ \E i \in 1..Len(program) :
          BlockFunction(i) /\ program[i].fn.body[1].statements = <<CallH, CallH>>

(***************************************************************************)
(* C26: local variables                                                    *)
(***************************************************************************)
StoppedDeclared(s) == From(s.typ, LocalChain(StoppedTable))

\* a failure reported at a local variable: the declared type is unknown; or,
\* the name not being bound, the initializer has no type or a type that does
\* not unify with the declared one; or, the name being bound, one of
\* TypeMismatch and NameRedefined, the second only once the initializer has
\* unified
VariableFailure(i) ==
    (FailedAt3(i) /\ ck_site.stmt.k = "Variable")
        => IF StoppedDeclared(ck_site.stmt).err # "Ok"
           THEN result = StoppedDeclared(ck_site.stmt).err
           ELSE IF ck_site.stmt.name \notin DOMAIN StoppedTable
           THEN IF StoppedType(ck_site.stmt.expr).err # "Ok"
                THEN result = StoppedType(ck_site.stmt.expr).err
                ELSE /\ result = "TypeMismatch"
                     /\ ~Unify(StoppedDeclared(ck_site.stmt).typ,
                               StoppedType(ck_site.stmt.expr).typ)
           ELSE /\ result \in {"TypeMismatch", "NameRedefined", "NoVariable"}
                /\ result = "NameRedefined"
                      => HasType(ck_site.stmt.expr, StoppedTable,
                                 StoppedDeclared(ck_site.stmt).typ)
                /\ (result = "TypeMismatch"
                       /\ HasType(ck_site.stmt.expr, StoppedTable,
                                  StoppedDeclared(ck_site.stmt).typ))
                      => ck_site.last /\ ~Unify(ReturnTypeOf(i), SemVoid)

\* C26: a local variable y: T = e has the type of e inferred, in the scope
\* without y, and unified with T before y is bound; y is then bound in the
\* current scope, so that later statements see y with type T (y: int = 1;
\* return y; is accepted in an int function); when the statement is the last
\* one, Void must unify with the return type.
C26_LocalVariable ==
    \A i \in 1..Len(program) :
        BodyHas(i, "Variable") => FollowsRules(i) /\ VariableFailure(i)

\* test_check_local_variable_define: y: int = 1; return y; is accepted as the
\* body of an int function
C26_Witness ==
    /\ result = "Ok"
    /\ \E i \in 1..Len(program) :
          /\ BlockFunction(i)
          /\ program[i].fn.ret_typ.name = "int"
          /\ program[i].fn.body[1].statements
                = <<SVar("y", PT("int"), EInt(1)), SReturn(<<EId("y")>>)>>

\* the other cases: y: int = y finds no y; y: int = 1 as the last statement
\* of an int function is a TypeMismatch with y bound
InitializerSeesNoLocal ==
    /\ result = "NoVariable"
    /\ ck_pass = 3
    /\ ck_site.stmt = SVar("y", PT("int"), EId("y"))
    /\ ck_site.env # <<>>
    /\ "y" \notin DOMAIN StoppedTable
TrailingVariableMismatch ==
    /\ result = "TypeMismatch"
    /\ ck_pass = 3
    /\ ck_site.stmt = SVar("y", PT("int"), EInt(1))
    /\ ck_site.last
    /\ ck_site.env # <<>>
    /\ "y" \in DOMAIN StoppedTable

(***************************************************************************)
(* C27: an accepted function that returns a value returns on every path    *)
(***************************************************************************)
\* every path through the block ends in a return of a value of type rt: the
\* block is not empty, its last statement is a return or an if, every block
\* of every if of it is of the same kind, and every return of it has a value
\* of type rt
RECURSIVE PathsReturn(_, _, _)
RECURSIVE PathsReturnFrom(_, _, _, _)
RECURSIVE ClausesReturn(_, _, _)
StatementReturns(s, last, L, rt) ==
    CASE s.k = "Return" -> s.opt # <<>> /\ HasType(s.opt[1], L, rt)
      [] s.k = "IfBlock" ->
            /\ ClausesReturn(s.clauses, L, rt)
            /\ PathsReturn(s.else_block, BoundAfterClauses(L, s.clauses), rt)
      [] OTHER -> ~last
PathsReturnFrom(stmts, k, L, rt) ==
    k > Len(stmts)
        \/ /\ StatementReturns(stmts[k], k = Len(stmts), L, rt)
           /\ PathsReturnFrom(stmts, k + 1, BoundAfterStatement(L, stmts[k]), rt)
PathsReturn(stmts, L, rt) == stmts # <<>> /\ PathsReturnFrom(stmts, 1, L, rt)
ClausesReturn(cs, L, rt) ==
    cs = <<>>
        \/ /\ PathsReturn(Head(cs).block, L, rt)
           /\ ClausesReturn(Tail(cs), BoundAfter(L, Head(cs).block), rt)

ReturnsValue(i) == BlockFunction(i) /\ program[i].fn.ret_typ.name # "void"

\* C27: when check_program accepts a function with a block body and a return
\* type other than Void, every control path through the body, through any
\* nesting of if, else-if and else, ends in a return whose expression has a
\* type that unifies with the declared return type: no accepted function of
\* that kind falls off the end of its body or of a clause.
C27_EveryPathReturns ==
    \A i \in 1..Len(program) :
        (ReturnsValue(i) /\ Passed3(i))
            => PathsReturn(program[i].fn.body[1].statements, ParametersOf(i), ReturnTypeOf(i))

\* the checker has accepted an int function whose body is an if that holds a
\* nested if in its clause
C27_Witness ==
    /\ result = "Ok"
    /\ \E i \in 1..Len(program) :
          /\ ReturnsValue(i)
          /\ Len(program[i].fn.body[1].statements) = 1
          /\ program[i].fn.body[1].statements[1].k = "IfBlock"
          /\ program[i].fn.body[1].statements[1].clauses[1].block # <<>>
          /\ program[i].fn.body[1].statements[1].clauses[1].block[1].k = "IfBlock"

(***************************************************************************)
(* C28: one scope for the whole body of a function                         *)
(***************************************************************************)
\* wherever the check of a body stops, the chain is the top-level scope and
\* one scope of the function
OneFunctionScope(i) == FailedAt3(i) => Len(ck_site.env) = 2

\* NameRedefined in a body is a local whose name the function has bound
\* already, as a parameter or as a local of any of its blocks; a name of the
\* top-level scope does not count
RedefinitionFailure(i) ==
    /\ (FailedAt3(i) /\ result = "NameRedefined")
          => /\ ck_site.stmt.k = "Variable"
             /\ ck_site.stmt.name \in DOMAIN StoppedTable
    /\ (FailedAt3(i) /\ ck_site.stmt.k = "Variable"
           /\ ck_site.stmt.name \notin DOMAIN StoppedTable)
          => result # "NameRedefined"

\* C28: check_block checks the clause blocks and the else-block in the scope
\* of the enclosing function body, one child scope per function and none per
\* block: a local declared in a clause block stays bound for the sibling
\* clauses and for the statements after the if; the same local name in two
\* blocks of a function, or a local with the name of a parameter, is
\* NameRedefined; a parameter or local with the name of a top-level binding
\* is accepted.
C28_FunctionScope ==
    \A i \in 1..Len(program) :
        BlockFunction(i) => FollowsRules(i) /\ OneFunctionScope(i) /\ RedefinitionFailure(i)

\* accepted: a void function that declares y in a clause block and reads it
\* in a statement after the if
C28_Witness ==
    /\ result = "Ok"
    /\ \E i \in 1..Len(program) :
          /\ BlockFunction(i)
          /\ Len(program[i].fn.body[1].statements) = 2
          /\ program[i].fn.body[1].statements[1].k = "IfBlock"
          /\ program[i].fn.body[1].statements[1].clauses[1].block
                = <<SVar("y", PT("int"), EInt(1))>>
          /\ program[i].fn.body[1].statements[2] = SVar("z", PT("int"), EId("y"))

\* the other cases
SiblingBlockRedefines ==
    /\ result = "NameRedefined"
    /\ ck_pass = 3
    /\ ck_site.stmt = SVar("y", PT("int"), EInt(2))
    /\ ck_site.env # <<>>
    /\ "y" \in DOMAIN StoppedTable
ParameterRedefined ==
    /\ result = "NameRedefined"
    /\ ck_pass = 3
    /\ ck_site.stmt = SVar("a", PT("int"), EInt(1))
TopLevelNameShadowed ==
    /\ result = "Ok"
    /\ \E i \in 1..Len(program) :
          /\ BlockFunction(i)
          /\ program[i].fn.body[1].statements = <<SReturn(<<EId("a")>>)>>
          /\ program[1] = TopVar("a", PT("string"), EStr("s"))
LocalShadowsTopLevel ==
    /\ result = "Ok"
    /\ \E i \in 1..Len(program) :
          /\ BlockFunction(i)
          /\ program[i].fn.body[1].statements # <<>>
          /\ program[i].fn.body[1].statements[1] = SVar("x", PT("string"), EStr("s"))
          /\ program[1] = TopVar("x", PT("int"), EInt(1))

(***************************************************************************)
(* C29: labels and branches in the stream                                  *)
(***************************************************************************)
LabelAfterTerminator(ins) ==
    \A q \in 1..Len(ins) :
        ins[q].op = "Label" => q > 1 /\ IsTerminator(ins[q - 1])

BranchBeforeItsLabel(ins) ==
    \A q \in 1..Len(ins) :
        ins[q].op = "Branch" => IsLabelAt(ins, q + 1, ins[q].if_true)

\* C29: in every lowered body every Label instruction is immediately
\* preceded by a terminator (Branch, Goto or Return), and every Branch is
\* immediately followed by the Label of its if_true target.
C29_LabelsFollowTerminators ==
    \A ins \in BuiltStreams : LabelAfterTerminator(ins) /\ BranchBeforeItsLabel(ins)

\* the module is complete; one lowered body has a Label after a Branch, one
\* after a Goto and one after a Return
C29_Witness ==
    /\ pc = "done"
    /\ \E i \in LoweredFns :
          /\ program[i].fn.body # <<>>
          /\ \A t \in {"Branch", "Goto", "Return"} :
                \E q \in 2..Len(StreamOf(i)) :
                    StreamOf(i)[q].op = "Label" /\ StreamOf(i)[q - 1].op = t

(***************************************************************************)
(* C30: operands are defined before they are used                          *)
(***************************************************************************)
LocalOperand(x) == IF x.e = "LocalIdentifier" THEN {x.id} ELSE {}

\* the ids of the local values an instruction uses as operands
OperandIds(inst) ==
    CASE inst.op = "Return" -> IF inst.value = <<>> THEN {} ELSE LocalOperand(inst.value[1])
      [] inst.op = "Branch" -> LocalOperand(inst.cond)
      [] inst.op \in {"GEP", "Load"} -> LocalOperand(inst.load_from)
      [] inst.op = "FunctionCall" ->
            UNION {LocalOperand(inst.args_expr[k]) : k \in 1..Len(inst.args_expr)}
      [] inst.op = "BinaryOperation" -> LocalOperand(inst.lhs) \cup LocalOperand(inst.rhs)
      [] inst.op = "BitCast" -> {inst.from_id}
      [] inst.op = "Store" -> LocalOperand(inst.source) \cup {inst.destination}
      [] OTHER -> {}

ValueOps == NumberedOps \ {"Label"}

ProducedBefore(ins, q, id) ==
    \E p \in 1..(q - 1) : ins[p].op \in ValueOps /\ ins[p].id = id

OperandsProducedEarlier(ins) ==
    \A q \in 1..Len(ins) : \A id \in OperandIds(ins[q]) : ProducedBefore(ins, q, id)

\* in a numbered stream an operand has a number, smaller than that of the
\* instruction that uses it and of every numbered instruction after it
OperandNumbersSmaller(ins) ==
    \A q \in 1..Len(ins) : \A id \in OperandIds(ins[q]) :
        /\ cells[id] >= 1
        /\ \A r \in q..Len(ins) : ins[r].op \in NumberedOps => cells[id] < NumberOf(ins[r])

\* C30: every local value used as an operand (GEP base, Load source, Store
\* source and destination, BitCast source, call argument, binary operand,
\* Branch condition, Return value) refers to an ID produced by an instruction
\* earlier in the same stream; after numbering, the number of an operand is
\* smaller than the number of the instruction that uses it.
C30_OperandsDefinedBeforeUse ==
    /\ \A ins \in BuiltStreams : OperandsProducedEarlier(ins)
    /\ \A ins \in FinishedBodies : OperandNumbersSmaller(ins)

\* the module is complete; a lowered body holds a sum whose left operand is
\* the value of an earlier call, and a body stores the value of a call into
\* a GEP that was pushed, and numbered, before the call
C30_Witness ==
    /\ pc = "done"
    /\ \E ins \in FinishedBodies : \E q \in 1..Len(ins) :
          /\ ins[q].op = "BinaryOperation"
          /\ ins[q].lhs.e = "LocalIdentifier"
          /\ cells[ins[q].lhs.id] >= 1
          /\ cells[ins[q].lhs.id] < cells[ins[q].id]
    /\ \E ins \in FinishedBodies : \E q \in 1..Len(ins) :
          /\ ins[q].op = "Store"
          /\ ins[q].source.e = "LocalIdentifier"
          /\ cells[ins[q].destination] >= 1
          /\ cells[ins[q].destination] < cells[ins[q].source.id]

====
